---- MODULE Spec2Model ----
(***************************************************************************)
(* Hexagen tile-generation pipeline.                                       *)
(*                                                                         *)
(*   - hex geometry          backend/scripts/utils/hexGrid.ts              *)
(*   - POST /api/generate-tile and GET .../can-generate                    *)
(*                           backend/src/index.ts                          *)
(*   - rate-limit / active-generation ledger   (rate limiter module)       *)
(*                                                                         *)
(* The server is one Node.js process: a handler runs without interruption  *)
(* between two awaits, so every action below is one synchronous segment of *)
(* a handler (from one await to the next), and the ledger functions, which *)
(* are fully synchronous, are one action each.                             *)
(***************************************************************************)
EXTENDS Integers, Sequences, FiniteSets, TLC

(***************************************************************************)
(* Bounds of the model.                                                    *)
(***************************************************************************)
NumRequests == 2
MaxTicks == 2
MaxCalls == 4
MaxGenerations == 3
MaxCoord == 6
MaxHeight == 1000

(***************************************************************************)
(* Values drawn as inputs.                                                 *)
(***************************************************************************)
EXEMPT_USERNAME == "Marcel.Ullrich"
Users == {"alice", "bob", EXEMPT_USERNAME}
SessionUsers == {"alice", "bob"}
Requests == 1..NumRequests
Seed == {<<0, 0>>}
Targets == {<<0, 0>>, <<2, 0>>, <<6, 0>>, <<100, 100>>}
None == "none"
\* A field of the JSON body: a number, a string that is no number, or absent.
Num(n) == <<"number", n>>
NotANumber == <<"string", 0>>
\* A value parseInt reads the integer n from without being it: n + 0.5, or a
\* string such as "2.5" or "2px".
Fraction(n) == <<"fraction", n>>
Missing == <<"undefined", 0>>

Range(s) == {s[i] : i \in 1..Len(s)}

(***************************************************************************)
(* Hex geometry (hexGrid.ts).  A coordinate is the pair <<x, y>>.          *)
(***************************************************************************)
\* JavaScript's % : the result takes the sign of the dividend.
JsRem(a, b) == IF a >= 0 THEN a % b ELSE 0 - ((0 - a) % b)

\* getHexagonNeighbors whose diagonal pushes forgot the y offset.
getHexagonNeighborsFlat(x, y) ==
    << <<x - 2, y>>, <<x + 2, y>>, <<x - 1, y>>, <<x + 1, y>>,
       <<x - 1, y>>, <<x + 1, y>> >>

\* getHexagonNeighbors whose diagonals follow the parity of x alone.
getHexagonNeighborsParityOnly(x, y) ==
    << <<x - 2, y>>, <<x + 2, y>>, <<x - 1, y>>, <<x + 1, y>> >>
    \o (IF JsRem(x, 2) = 0
        THEN << <<x - 1, y - 1>>, <<x + 1, y - 1>> >>
        ELSE << <<x - 1, y + 1>>, <<x + 1, y + 1>> >>)

getHexagonNeighbors(x, y) ==
    LET fixed == << <<x - 2, y>>, <<x + 2, y>>, <<x - 1, y>>, <<x + 1, y>> >>
        up    == << <<x - 1, y - 1>>, <<x + 1, y - 1>> >>
        down  == << <<x - 1, y + 1>>, <<x + 1, y + 1>> >>
    IN  IF JsRem(x, 2) = 0
        THEN IF x < 0 /\ y < 0 THEN fixed \o down
             ELSE IF x < 0 /\ y > 0 THEN fixed \o down
             ELSE IF x > 0 /\ y < 0 THEN fixed \o up
             ELSE fixed \o up
        ELSE IF x < 0 /\ y < 0 THEN fixed \o up
             ELSE IF x < 0 /\ y > 0 THEN fixed \o up
             ELSE IF x > 0 /\ y < 0 THEN fixed \o down
             ELSE fixed \o down

\* The closure `add` without its test for the centre.
AddCoordsKeepCenter(cands, center) ==
    LET keep == {i \in 1..Len(cands) : \A j \in 1..(i - 1) : cands[j] # cands[i]}
        nth(k) == CHOOSE i \in keep : Cardinality({j \in keep : j < i}) = k - 1
    IN  [k \in 1..Cardinality(keep) |-> cands[nth(k)]]

\* The closure `add` of getNeighborsWithinRadiusTwo applied to the candidates
\* in order: a candidate is pushed unless its key "x_y" was visited or it is
\* the centre.  The key names a pair of integers uniquely, so a candidate is
\* kept exactly when it is not the centre and no earlier candidate equals it.
AddCoords(cands, center) ==
    LET keep == {i \in 1..Len(cands) :
                    /\ cands[i] # center
                    /\ \A j \in 1..(i - 1) : cands[j] # cands[i]}
        nth(k) == CHOOSE i \in keep : Cardinality({j \in keep : j < i}) = k - 1
    IN  [k \in 1..Cardinality(keep) |-> cands[nth(k)]]

\* getNeighborsWithinRadiusTwo whose second loop asks for the neighbours of
\* the centre again instead of those of n.
getNeighborsWithinRadiusTwoOfCenter(x, y) ==
    LET d1 == getHexagonNeighbors(x, y)
    IN  AddCoords(d1 \o d1 \o d1 \o d1 \o d1 \o d1 \o d1, <<x, y>>)

getNeighborsWithinRadiusTwo(x, y) ==
    LET d1 == getHexagonNeighbors(x, y)
        d2(i) == getHexagonNeighbors(d1[i][1], d1[i][2])
    IN  AddCoords(d1 \o d2(1) \o d2(2) \o d2(3) \o d2(4) \o d2(5) \o d2(6), <<x, y>>)

\* getNeighborsWithinRadiusTwo at the coordinates the requests name.
RadiusTwo == [c \in Targets |-> getNeighborsWithinRadiusTwo(c[1], c[2])]

(***************************************************************************)
(* State.                                                                  *)
(***************************************************************************)
VARIABLES
    images,        \* files of IMAGES_DIR: records [c, kind, by]
    thumbnails,    \* files of THUMBNAILS_DIR: records [c, kind, by]
    metadata,      \* files of METADATA_DIR: records [c, by, username]
    tempFiles,     \* coordinate_images/coordinate_x_y.{png,jpg}, templates/mask.jpg
    env,           \* process environment and assets: [apiKey, maskPng]
    req,           \* the generate-tile requests, each at its current await
    rateFile,      \* logs/rate_limits.json: sequence of RateLimitEntry
    activeFile,    \* logs/active_generations.json: sequence of ActiveGeneration
    now,           \* Date.now(), in milliseconds
    ticks,         \* number of clock advances so far
    calls,         \* number of ledger calls so far
    last,          \* the last ledger call and what it returned
    lastStart,     \* per user: the last startActiveGeneration not yet stopped
    gen,           \* clients that follow canGenerate -> start -> ... -> stop
    overran,       \* per user: a generation has been in flight past the stale threshold
    raced,         \* per user: a request started between another one's check and start
    hex,           \* the coordinate the geometry functions were last applied to
    hexNeighbors,  \* what getHexagonNeighbors returned for hex
    hexWithin,     \* what getNeighborsWithinRadiusTwo returned for hex, <<>> before the call
    assets,        \* files of TEMPLATES_DIR: [biomes, templates]
    terrain,       \* getHeightAt of the coordinate that is resolved, in thousandths
    served,        \* the last answer of GET /api/hexagon/:x/:y or of resolveHexImage
    tempDir,       \* TEMP_DIR of generateCoordinateImage: [exists, files]
    run,           \* the calls of generateCoordinateImage, each at its current await
    worker,        \* processes that share the logs directory, each inside a ledger call
    lastBody,      \* req.body of the generate-tile request received last
    crop,          \* the last call of extractCenterHexagon and the centre cell of the canvas
    perlin,        \* the Perlin2D instance of terrain.ts
    lastHeight,    \* the last call of getHeightAt
    inFlight,      \* per user, exempt or not: the last start that no stop followed
    caller,        \* the username the last ledger operation was invoked for
    session,       \* per generate-tile request: req.session.authenticated when it arrived
    tracker,       \* logs/generation_tracker.json: [generations, lastUpdated]
    poller         \* a client of getUpdatedCoordinates: [since, updated, owed]

pipelineVars == <<images, thumbnails, metadata, tempFiles, env, req, lastBody>>
ledgerVars == <<rateFile, activeFile, now, ticks, calls, last, lastStart>>
protocolVars == <<gen, overran, raced>>
geometryVars == <<hex, hexNeighbors, hexWithin>>
resolveVars == <<assets, terrain, served>>
composeVars == <<tempDir, run>>
workerVars == <<worker>>
utilVars == <<crop, perlin, lastHeight, inFlight, caller, session, tracker, poller>>
vars == <<images, thumbnails, metadata, tempFiles, env, req,
          rateFile, activeFile, now, ticks, calls, last, lastStart, gen, overran, raced,
          hex, hexNeighbors, hexWithin, assets, terrain, served, tempDir, run, worker, lastBody,
          crop, perlin, lastHeight, inFlight, caller, session,
          tracker, poller>>

(***************************************************************************)
(* Files.  A file of the images directory is [c, kind, by]: the coordinate *)
(* of its name, its kind ("jpg", "png", "svg" for x_y.<ext>, "org" for     *)
(* x_y_org.png) and the request that wrote it (0: no generate request).    *)
(* Writing a path replaces the file of that path.                          *)
(***************************************************************************)
TileKinds == {"jpg", "png", "svg"}

WriteImage(dir, c, kind, by) ==
    {f \in dir : ~(f.c = c /\ f.kind = kind)} \cup {[c |-> c, kind |-> kind, by |-> by]}

HasImage(dir, c, kind) == \E f \in dir : f.c = c /\ f.kind = kind

\* fs.existsSync(jpg) || fs.existsSync(png) || fs.existsSync(svg)
TileExists(dir, c) == \E k \in TileKinds : HasImage(dir, c, k)

\* The adjacency loop of both endpoints: some coordinate of the radius-two
\* list has a tile.
HasNeighborTile(dir, c) ==
    LET neighbors == RadiusTwo[c]
    IN  \E i \in 1..Len(neighbors) : TileExists(dir, neighbors[i])

CoordPng(c) == <<"coordinate_png", c>>
CoordJpg(c) == <<"coordinate_jpg", c>>
MaskJpg == <<"mask_jpg", <<0, 0>>>>

(***************************************************************************)
(* POST /api/generate-tile.  A request is                                  *)
(*   pc       the await it is suspended at ("idle" before it arrives,      *)
(*            "done" once the response is sent)                            *)
(*   user     session username                                             *)
(*   c        <<xNum, yNum>>                                               *)
(*   final    which file finalImagePath names ("png" or "org"), while the  *)
(*            thumbnail conversion runs                                    *)
(*   outcome  the response                                                 *)
(*   wrote    the tile, thumbnail and metadata files this request wrote    *)
(***************************************************************************)
IdleRequest ==
    [pc |-> "idle", user |-> None, c |-> <<0, 0>>, final |-> None,
     outcome |-> None, wrote |-> {}]

Bodies ==
    {[x |-> Num(t[1]), y |-> Num(t[2]), prompt |-> TRUE] : t \in Targets}
    \cup {[x |-> Missing, y |-> Num(0), prompt |-> TRUE],
          [x |-> Num(2), y |-> NotANumber, prompt |-> TRUE],
          [x |-> Fraction(2), y |-> Num(0), prompt |-> TRUE],
          [x |-> Num(2), y |-> Num(0), prompt |-> FALSE]}

\* Before any request.
NoBody == [x |-> Missing, y |-> Missing, prompt |-> FALSE]

\* isNaN(parseInt(v)): parseInt stops at the first character that is no digit.
IsNaN(v) == v[1] \notin {"number", "fraction"}

\* Respond without the return: the response is sent and the handler runs on
\* to generateCoordinateImage.
RespondNoReturn(r, c, outcome, wrote) ==
    req' = [req EXCEPT ![r].pc = "compose", ![r].c = c, ![r].outcome = outcome]

\* The response is sent: the request is over and its locals are gone.
Respond(r, c, outcome, wrote) ==
    req' = [req EXCEPT ![r] = [IdleRequest EXCEPT !.pc = "done", !.c = c,
                                                  !.outcome = outcome, !.wrote = wrote]]

\* Eligibility with the adjacency loop run over the direct neighbours only.
EligibilityDirectOnly(r, user, c) ==
    IF ~(\E n \in Range(getHexagonNeighbors(c[1], c[2])) : TileExists(images, n))
    THEN Respond(r, c, "403", {})
    ELSE IF TileExists(images, c)
    THEN Respond(r, c, "409", {})
    ELSE req' = [req EXCEPT ![r].pc = "compose", ![r].user = user, ![r].c = c]

\* Eligibility without the adjacency rule.
EligibilityExistsOnly(r, user, c) ==
    IF TileExists(images, c)
    THEN Respond(r, c, "409", {})
    ELSE req' = [req EXCEPT ![r].pc = "compose", ![r].user = user, ![r].c = c]

\* The adjacency rule, then the existence check, then the call of
\* generateCoordinateImage.
Eligibility(r, user, c) ==
    IF ~HasNeighborTile(images, c)
    THEN Respond(r, c, "403", {})
    ELSE IF TileExists(images, c)
    THEN Respond(r, c, "409", {})
    ELSE req' = [req EXCEPT ![r].pc = "compose", ![r].user = user, ![r].c = c]

\* The route registered without requireAuth.
ReceiveNoAuth(r, user, authenticated, body) ==
    /\ req[r].pc = "idle"
    /\ lastBody' = body
    /\ UNCHANGED <<images, thumbnails, metadata, tempFiles, env>>
    /\ IF body.x = Missing \/ body.y = Missing \/ ~body.prompt
       THEN Respond(r, <<0, 0>>, "400", {})
       ELSE IF IsNaN(body.x) \/ IsNaN(body.y)
       THEN Respond(r, <<0, 0>>, "400", {})
       ELSE Eligibility(r, user, <<body.x[2], body.y[2]>>)

\* requireAuth, then the synchronous head of the handler up to the call of
\* generateCoordinateImage.
Receive(r, user, authenticated, body) ==
    /\ req[r].pc = "idle"
    /\ lastBody' = body
    /\ UNCHANGED <<images, thumbnails, metadata, tempFiles, env>>
    /\ IF ~authenticated
       THEN Respond(r, <<0, 0>>, "401", {})
       ELSE IF body.x = Missing \/ body.y = Missing \/ ~body.prompt
       THEN Respond(r, <<0, 0>>, "400", {})
       ELSE IF IsNaN(body.x) \/ IsNaN(body.y)
       THEN Respond(r, <<0, 0>>, "400", {})
       ELSE Eligibility(r, user, <<body.x[2], body.y[2]>>)

\* The catch block: remove the temporary files (coordinate_x_y.jpg only if
\* jpgImagePath was assigned), answer 500.
Catch(r, jpgSet) ==
    /\ tempFiles' = tempFiles \ ({CoordPng(req[r].c), MaskJpg}
                                 \cup (IF jpgSet THEN {CoordJpg(req[r].c)} ELSE {}))
    /\ Respond(r, req[r].c, "500", req[r].wrote)

\* await generateCoordinateImage(xNum, yNum, permanentImagePath)
Compose(r, ok) ==
    /\ req[r].pc = "compose"
    /\ UNCHANGED <<images, thumbnails, metadata, env>>
    /\ IF ok
       THEN /\ tempFiles' = tempFiles \cup {CoordPng(req[r].c)}
            /\ req' = [req EXCEPT ![r].pc = "convert"]
       ELSE Catch(r, FALSE)

\* The API-key check and the call of the provider; tf is the temporary
\* directory as the mask conversion left it.
CallProvider(r, tf) ==
    /\ tempFiles' = tf
    /\ IF ~env.apiKey
       THEN Respond(r, req[r].c, "500_apikey", req[r].wrote)
       ELSE req' = [req EXCEPT ![r].pc = "provider"]

\* await magick png -> jpg, then the jpg is read and the mask conversion starts.
Convert(r, ok) ==
    /\ req[r].pc = "convert"
    /\ UNCHANGED <<images, thumbnails, metadata, env>>
    /\ IF ok /\ CoordPng(req[r].c) \in tempFiles
       THEN IF env.maskPng
            THEN /\ tempFiles' = tempFiles \cup {CoordJpg(req[r].c)}
                 /\ req' = [req EXCEPT ![r].pc = "mask"]
            ELSE CallProvider(r, tempFiles \cup {CoordJpg(req[r].c)})
       ELSE Catch(r, TRUE)

\* await magick mask.png -> mask.jpg (a failure is only logged), then the
\* mask is read and the provider is called.
Mask(r, ok) ==
    /\ req[r].pc = "mask"
    /\ UNCHANGED <<images, thumbnails, metadata, env>>
    /\ CallProvider(r, IF ok THEN tempFiles \cup {MaskJpg} ELSE tempFiles)

\* await axios.post: it throws (network error, non-2xx status), or answers
\* with or without a result URL.
Provider(r, answer) ==
    /\ req[r].pc = "provider"
    /\ UNCHANGED <<images, thumbnails, metadata, env>>
    /\ CASE answer = "throw" -> Catch(r, TRUE)
         [] answer = "nourl" -> /\ Respond(r, req[r].c, "500_nourl", req[r].wrote)
                                /\ UNCHANGED tempFiles
         [] OTHER -> /\ req' = [req EXCEPT ![r].pc = "download"]
                     /\ UNCHANGED tempFiles

\* await fetch / arrayBuffer, then x_y_org.png is written and the crop starts.
Download(r, ok) ==
    /\ req[r].pc = "download"
    /\ UNCHANGED <<thumbnails, metadata, env>>
    /\ IF ok
       THEN /\ images' = WriteImage(images, req[r].c, "org", r)
            /\ req' = [req EXCEPT ![r].pc = "extract"]
            /\ UNCHANGED tempFiles
       ELSE /\ Catch(r, TRUE)
            /\ UNCHANGED images

\* await extractCenterHexagon: the crop writes x_y.png and x_y_org.png is
\* unlinked, or the crop fails and x_y_org.png stays the final image.  Then
\* the metadata is written and the thumbnail conversion starts.
Extract(r, ok) ==
    /\ req[r].pc = "extract"
    /\ UNCHANGED <<thumbnails, tempFiles, env>>
    /\ metadata' = {m \in metadata : m.c # req[r].c}
                   \cup {[c |-> req[r].c, by |-> r, username |-> req[r].user]}
    /\ IF ok /\ HasImage(images, req[r].c, "org")
       THEN /\ images' = {f \in WriteImage(images, req[r].c, "png", r) :
                            ~(f.c = req[r].c /\ f.kind = "org")}
            /\ req' = [req EXCEPT ![r].pc = "thumb", ![r].final = "png",
                                  ![r].wrote = @ \cup {"image", "metadata"}]
       ELSE /\ UNCHANGED images
            /\ req' = [req EXCEPT ![r].pc = "thumb", ![r].final = "org",
                                  ![r].wrote = @ \cup {"metadata"}]

\* Thumb without the try/catch around the thumbnail conversion: its failure
\* reaches the catch block of the handler.
ThumbUncaught(r, ok) ==
    /\ req[r].pc = "thumb"
    /\ UNCHANGED <<images, metadata, env>>
    /\ IF ok /\ HasImage(images, req[r].c, req[r].final)
       THEN /\ tempFiles' = tempFiles \ {CoordPng(req[r].c), CoordJpg(req[r].c), MaskJpg}
            /\ thumbnails' = WriteImage(thumbnails, req[r].c, "jpg", r)
            /\ Respond(r, req[r].c, "success", req[r].wrote \cup {"thumbnail"})
       ELSE /\ UNCHANGED thumbnails
            /\ Catch(r, TRUE)

\* await magick final -> thumbnail (a failure is only logged), then the
\* temporary files are removed and success is answered.
Thumb(r, ok) ==
    /\ req[r].pc = "thumb"
    /\ UNCHANGED <<images, metadata, env>>
    /\ tempFiles' = tempFiles \ {CoordPng(req[r].c), CoordJpg(req[r].c), MaskJpg}
    /\ IF ok /\ HasImage(images, req[r].c, req[r].final)
       THEN /\ thumbnails' = WriteImage(thumbnails, req[r].c, "jpg", r)
            /\ Respond(r, req[r].c, "success", req[r].wrote \cup {"thumbnail"})
       ELSE /\ UNCHANGED thumbnails
            /\ Respond(r, req[r].c, "success", req[r].wrote)

\* GET /api/hexagon/:x/:y/can-generate: it reads the store and changes
\* nothing, so it is the answer as a function of the images directory.
CanGenerateEndpoint(dir, c) ==
    IF TileExists(dir, c)
    THEN [allowed |-> FALSE, reason |-> "Tile already exists"]
    ELSE IF ~HasNeighborTile(dir, c)
    THEN [allowed |-> FALSE, reason |-> "not adjacent"]
    ELSE [allowed |-> TRUE, reason |-> None]

(***************************************************************************)
(* The ledger (rate limiter module).  Both files hold a JSON array; load   *)
(* reads it into a Map keyed by username (insertion order kept, a repeated *)
(* key keeps its place and takes the later entry), save writes the values  *)
(* of the Map back.  A missing file loads as the empty Map.                *)
(***************************************************************************)
RATE_LIMIT_SECONDS == 60
STALE_THRESHOLD == 5 * 60 * 1000
PREVENT_CONCURRENT_GENERATION == TRUE

MapHas(m, username) == \E i \in 1..Len(m) : m[i].username = username
MapGet(m, username) == m[CHOOSE i \in 1..Len(m) : m[i].username = username]
MapSet(m, entry) ==
    IF MapHas(m, entry.username)
    THEN [i \in 1..Len(m) |-> IF m[i].username = entry.username THEN entry ELSE m[i]]
    ELSE Append(m, entry)
MapDelete(m, username) == SelectSeq(m, LAMBDA e : e.username # username)

RECURSIVE MapFromEntries(_)
MapFromEntries(entries) ==
    IF entries = <<>> THEN <<>>
    ELSE MapSet(MapFromEntries(SubSeq(entries, 1, Len(entries) - 1)),
                entries[Len(entries)])

\* loadActiveGenerations whose read fails: the catch leaves the Map empty.
loadActiveGenerationsEmpty(file) == <<>>

\* A file that JSON.parse rejects is its readable entries with Garbage among
\* them (a truncated or overwritten file); the catch leaves the Map empty.
Garbage == "<garbage>"
Unparsable(file) == \E i \in 1..Len(file) : file[i].username = Garbage

loadRateLimits(file) == IF Unparsable(file) THEN <<>> ELSE MapFromEntries(file)
saveRateLimits(limits) == limits
loadActiveGenerations(file) == IF Unparsable(file) THEN <<>> ELSE MapFromEntries(file)
saveActiveGenerations(activeGenerations) == activeGenerations

\* cleanupStaleActiveGenerations that deletes from the Map and never saves it.
cleanupStaleNoSave(file, t) == file

\* The active-generations file after cleanupStaleActiveGenerations at time t:
\* rewritten only if some entry was deleted.
cleanupStaleActiveGenerations(file, t) ==
    LET activeGenerations == loadActiveGenerations(file)
        remaining == SelectSeq(activeGenerations,
                               LAMBDA e : ~(t - e.startTime > STALE_THRESHOLD))
    IN  IF remaining # activeGenerations
        THEN saveActiveGenerations(remaining)
        ELSE file

\* Math.floor(ms / 1000) in place of Math.ceil.
FloorSeconds(ms) == ms \div 1000

\* Math.ceil(ms / 1000) for ms > 0
CeilSeconds(ms) == (ms + 999) \div 1000

\* What canUserGenerateImage returns.  A field the code leaves undefined is
\* FALSE (isGenerating), <<>> (generatingCoordinates) or 0 (timeUntilNext).
Allowed ==
    [allowed |-> TRUE, isGenerating |-> FALSE, generatingCoordinates |-> <<>>,
     timeUntilNext |-> 0]
RefusedGenerating(coordinates) ==
    [allowed |-> FALSE, isGenerating |-> TRUE, generatingCoordinates |-> coordinates,
     timeUntilNext |-> 0]
RefusedRateLimited(seconds) ==
    [allowed |-> FALSE, isGenerating |-> FALSE, generatingCoordinates |-> <<>>,
     timeUntilNext |-> seconds]

\* canUserGenerateImage that still refuses when the window has just elapsed
\* (timeUntilNext >= 0 in place of timeUntilNext > 0).
canUserGenerateImageOffByOne(username, coordinates, active, rate, t) ==
    IF username = EXEMPT_USERNAME THEN Allowed
    ELSE IF PREVENT_CONCURRENT_GENERATION
            /\ MapHas(loadActiveGenerations(active), username)
    THEN RefusedGenerating(MapGet(loadActiveGenerations(active), username).coordinates)
    ELSE LET limits == loadRateLimits(rate)
         IN  IF ~MapHas(limits, username) THEN Allowed
             ELSE LET timeSinceLastGeneration == t - MapGet(limits, username).lastGeneration
                      timeUntilNext == RATE_LIMIT_SECONDS * 1000 - timeSinceLastGeneration
                  IN  IF timeUntilNext >= 0
                      THEN RefusedRateLimited(CeilSeconds(timeUntilNext))
                      ELSE Allowed

\* canUserGenerateImage with the rate limit tested before the active record.
canUserGenerateImageRateFirst(username, coordinates, active, rate, t) ==
    LET limits == loadRateLimits(rate)
        timeUntilNext ==
            IF MapHas(limits, username)
            THEN RATE_LIMIT_SECONDS * 1000 - (t - MapGet(limits, username).lastGeneration)
            ELSE 0
    IN  IF username = EXEMPT_USERNAME THEN Allowed
        ELSE IF timeUntilNext > 0 THEN RefusedRateLimited(CeilSeconds(timeUntilNext))
        ELSE IF PREVENT_CONCURRENT_GENERATION
                /\ MapHas(loadActiveGenerations(active), username)
        THEN RefusedGenerating(MapGet(loadActiveGenerations(active), username).coordinates)
        ELSE Allowed

\* canUserGenerateImage after its first statement (the stale cleanup): active
\* is the active-generations file as the cleanup left it.  The coordinates
\* argument is not read.
canUserGenerateImage(username, coordinates, active, rate, t) ==
    IF username = EXEMPT_USERNAME THEN Allowed
    ELSE IF PREVENT_CONCURRENT_GENERATION
            /\ MapHas(loadActiveGenerations(active), username)
    THEN RefusedGenerating(MapGet(loadActiveGenerations(active), username).coordinates)
    ELSE LET limits == loadRateLimits(rate)
         IN  IF ~MapHas(limits, username) THEN Allowed
             ELSE LET timeSinceLastGeneration == t - MapGet(limits, username).lastGeneration
                      timeUntilNext == RATE_LIMIT_SECONDS * 1000 - timeSinceLastGeneration
                  IN  IF timeUntilNext > 0
                      THEN RefusedRateLimited(CeilSeconds(timeUntilNext))
                      ELSE Allowed

\* recordImageGeneration without the early return for the exempt user.
recordImageGenerationEveryone(username, rate, t) ==
    saveRateLimits(MapSet(loadRateLimits(rate),
                          [username |-> username, lastGeneration |-> t]))

\* The rate-limit file after recordImageGeneration(username) at time t.
recordImageGeneration(username, rate, t) ==
    IF username = EXEMPT_USERNAME THEN rate
    ELSE saveRateLimits(MapSet(loadRateLimits(rate),
                               [username |-> username, lastGeneration |-> t]))

\* startActiveGeneration that pushes the entry onto the array it loaded.
startActiveGenerationAppend(username, coordinates, active, t) ==
    IF ~PREVENT_CONCURRENT_GENERATION \/ username = EXEMPT_USERNAME THEN active
    ELSE Append(active,
                [username |-> username, startTime |-> t, coordinates |-> coordinates])

\* startActiveGeneration that sets the entry in the Map and never saves it.
startActiveGenerationNoSave(username, coordinates, active, t) == active

\* The active-generations file after startActiveGeneration at time t.
startActiveGeneration(username, coordinates, active, t) ==
    IF ~PREVENT_CONCURRENT_GENERATION \/ username = EXEMPT_USERNAME THEN active
    ELSE saveActiveGenerations(
            MapSet(loadActiveGenerations(active),
                   [username |-> username, startTime |-> t, coordinates |-> coordinates]))

\* stopActiveGeneration that deletes from the Map and never saves it.
stopActiveGenerationNoSave(username, active) == active

\* stopActiveGeneration that saves an empty Map.
stopActiveGenerationClear(username, active) == saveActiveGenerations(<<>>)

\* The active-generations file after stopActiveGeneration.
stopActiveGeneration(username, active) ==
    IF ~PREVENT_CONCURRENT_GENERATION \/ username = EXEMPT_USERNAME THEN active
    ELSE IF MapHas(loadActiveGenerations(active), username)
    THEN saveActiveGenerations(MapDelete(loadActiveGenerations(active), username))
    ELSE active

\* isCoordinateBeingGenerated that reports no coordinate.
isCoordinateBeingGeneratedNever(coordinates, active) ==
    [isGenerating |-> FALSE, generatingUser |-> None]

\* isCoordinateBeingGenerated after its call of cleanupStaleActiveGenerations:
\* the first entry of the Map, in insertion order, with these coordinates.
isCoordinateBeingGenerated(coordinates, active) ==
    LET activeGenerations == loadActiveGenerations(active)
        hits == {i \in 1..Len(activeGenerations) :
                    activeGenerations[i].coordinates = coordinates}
    IN  IF ~PREVENT_CONCURRENT_GENERATION \/ hits = {}
        THEN [isGenerating |-> FALSE, generatingUser |-> None]
        ELSE [isGenerating |-> TRUE,
              generatingUser |->
                  activeGenerations[CHOOSE i \in hits : \A j \in hits : i <= j].username]

(***************************************************************************)
(* The ledger driven call by call.  last is the latest call and, for       *)
(* canUserGenerateImage, what it returned; lastStart[u] remembers the      *)
(* latest startActiveGeneration(u, c) of a non-exempt user u that no       *)
(* stopActiveGeneration(u) followed.                                       *)
(***************************************************************************)
LedgerCoords == {<<2, 0>>, <<6, 0>>}
TickSteps == {1, 999, 59999, 300000}
NoStart == [started |-> FALSE, startTime |-> 0, coordinates |-> <<>>]
Call(op, username, res) == [op |-> op, username |-> username, res |-> res]

CanGenerate(username, coordinates) ==
    /\ calls < MaxCalls
    /\ calls' = calls + 1
    /\ activeFile' = cleanupStaleActiveGenerations(activeFile, now)
    /\ last' = Call("canGenerate", username,
                    canUserGenerateImage(username, coordinates, activeFile', rateFile, now))
    /\ UNCHANGED <<rateFile, now, ticks, lastStart>>

StartGeneration(username, coordinates) ==
    /\ calls < MaxCalls
    /\ calls' = calls + 1
    /\ activeFile' = startActiveGeneration(username, coordinates, activeFile, now)
    /\ lastStart' = IF username = EXEMPT_USERNAME THEN lastStart
                    ELSE [lastStart EXCEPT ![username] =
                            [started |-> TRUE, startTime |-> now,
                             coordinates |-> coordinates]]
    /\ last' = Call("start", None, Allowed)
    /\ UNCHANGED <<rateFile, now, ticks>>

StopGeneration(username) ==
    /\ calls < MaxCalls
    /\ calls' = calls + 1
    /\ activeFile' = stopActiveGeneration(username, activeFile)
    /\ lastStart' = [lastStart EXCEPT ![username] = NoStart]
    /\ last' = Call("stop", None, Allowed)
    /\ UNCHANGED <<rateFile, now, ticks>>

RecordSuccess(username) ==
    /\ calls < MaxCalls
    /\ calls' = calls + 1
    /\ rateFile' = recordImageGeneration(username, rateFile, now)
    /\ last' = Call("recordSuccess", username, Allowed)
    /\ UNCHANGED <<activeFile, now, ticks, lastStart>>

\* isCoordinateBeingGenerated(coordinates): the stale sweep, then the lookup.
IsCoordinateBeingGenerated(coordinates) ==
    /\ calls < MaxCalls
    /\ calls' = calls + 1
    /\ activeFile' = IF PREVENT_CONCURRENT_GENERATION
                     THEN cleanupStaleActiveGenerations(activeFile, now)
                     ELSE activeFile
    /\ last' = [op |-> "isCoordinateBeingGenerated", username |-> None,
                res |-> isCoordinateBeingGenerated(coordinates, activeFile'),
                coordinates |-> coordinates]
    /\ UNCHANGED <<rateFile, now, ticks, lastStart>>

\* Time passes.
Tick(d) ==
    /\ ticks < MaxTicks
    /\ now' = now + d
    /\ ticks' = ticks + 1
    /\ last' = Call("tick", None, Allowed)
    /\ UNCHANGED <<rateFile, activeFile, calls, lastStart>>

(***************************************************************************)
(* The pipeline: the endpoints of index.ts over the tile store.            *)
(***************************************************************************)
InitLedger ==
    /\ rateFile = <<>>
    /\ activeFile = <<>>
    /\ now = 0
    /\ ticks = 0
    /\ calls = 0
    /\ last = Call(None, None, Allowed)
    /\ lastStart = [u \in Users |-> NoStart]

(***************************************************************************)
(* The ledger files under more than one writer.  Inside one process every  *)
(* ledger function runs from its readFileSync to its writeFileSync without *)
(* interruption; nothing locks the files, so between processes that share  *)
(* the logs directory the read and the write of a call are two steps.  A   *)
(* worker is a process inside startActiveGeneration ("start") or           *)
(* recordImageGeneration ("record"):                                       *)
(*   pc        "idle", "loaded" (the Map is in memory), "done"             *)
(*   loaded    the Map it read                                             *)
(*   overlapped  the workers that held a Map of the same file in memory    *)
(*             when this one wrote                                         *)
(***************************************************************************)
NumWorkers == 2
Workers == 1..NumWorkers
LedgerOps == {"start", "record"}

IdleWorker ==
    [pc |-> "idle", op |-> None, username |-> None, coordinates |-> <<0, 0>>,
     loaded |-> <<>>, overlapped |-> {}]

\* The head of the call up to the Map being loaded; the exempt user returns
\* before the file is read.  Workers are numbered in the order they begin.
LoadLedger(w, op, username, coordinates) ==
    /\ worker[w].pc = "idle"
    /\ \A v \in Workers : v < w => worker[v].pc # "idle"
    /\ worker' = [worker EXCEPT ![w] =
          IF username = EXEMPT_USERNAME
             \/ (op = "start" /\ ~PREVENT_CONCURRENT_GENERATION)
          THEN [IdleWorker EXCEPT !.pc = "done", !.op = op, !.username = username]
          ELSE [pc |-> "loaded", op |-> op, username |-> username,
                coordinates |-> coordinates,
                loaded |-> IF op = "start" THEN loadActiveGenerations(activeFile)
                           ELSE loadRateLimits(rateFile),
                overlapped |-> {}]]
    /\ UNCHANGED <<rateFile, activeFile>>

\* Map.set and the save of the Map that was loaded.
SaveLedger(w) ==
    /\ worker[w].pc = "loaded"
    /\ IF worker[w].op = "start"
       THEN /\ activeFile' = saveActiveGenerations(
                   MapSet(worker[w].loaded,
                          [username |-> worker[w].username, startTime |-> now,
                           coordinates |-> worker[w].coordinates]))
            /\ UNCHANGED rateFile
       ELSE /\ rateFile' = saveRateLimits(
                   MapSet(worker[w].loaded,
                          [username |-> worker[w].username, lastGeneration |-> now]))
            /\ UNCHANGED activeFile
    /\ worker' = [worker EXCEPT ![w].pc = "done",
                                ![w].overlapped =
                                   {v \in Workers \ {w} :
                                       /\ worker[v].pc = "loaded"
                                       /\ worker[v].op = worker[w].op}]

InitWorkers == worker = [w \in Workers |-> IdleWorker]

IdleGeneration == [pc |-> "idle", username |-> None, startTime |-> 0, why |-> None]

InitProtocol ==
    /\ gen = [g \in 1..MaxGenerations |-> IdleGeneration]
    /\ overran = [u \in Users |-> FALSE]
    /\ raced = [u \in Users |-> FALSE]

InitPipeline ==
    /\ images = {[c |-> c, kind |-> "png", by |-> 0] : c \in Seed}
    /\ thumbnails = {}
    /\ metadata = {}
    /\ tempFiles = {}
    /\ env \in [apiKey : BOOLEAN, maskPng : BOOLEAN]
    /\ req = [r \in Requests |-> IdleRequest]
    /\ lastBody = NoBody

(***************************************************************************)
(* Reading a tile: GET /api/hexagon/:x/:y and resolveHexImage (the batch   *)
(* endpoint).  An answer names the source it was taken from, the file (or  *)
(* the kind of the file) and the Content-Type.  Each call is taken as one  *)
(* step; the only file a call writes is the derived thumbnail x_y.jpg.     *)
(***************************************************************************)
BiomeFiles == {"water.png", "sand.png", "gras.png", "mountain.png", "snow.png"}

\* The table of getBiomeTemplatePath, thresholds in thousandths.
BiomeEntries ==
    << [threshold |-> 500, file |-> "water.png"],
       [threshold |-> 510, file |-> "sand.png"],
       [threshold |-> 600, file |-> "gras.png"],
       [threshold |-> 650, file |-> "mountain.png"],
       [threshold |-> 1750, file |-> "snow.png"] >>

\* getBiomeTemplatePath that compares with < in place of <=.
getBiomeTemplatePathStrict(height, biomes) ==
    LET hits == {i \in 1..Len(BiomeEntries) : height < BiomeEntries[i].threshold}
    IN  IF hits = {} THEN None
        ELSE LET first == CHOOSE i \in hits : \A j \in hits : i <= j
             IN  IF BiomeEntries[first].file \in biomes
                 THEN BiomeEntries[first].file
                 ELSE None

\* The first entry with height <= threshold decides: its file if it exists,
\* null otherwise (the loop breaks).
getBiomeTemplatePath(height, biomes) ==
    LET hits == {i \in 1..Len(BiomeEntries) : height <= BiomeEntries[i].threshold}
    IN  IF hits = {} THEN None
        ELSE LET first == CHOOSE i \in hits : \A j \in hits : i <= j
             IN  IF BiomeEntries[first].file \in biomes
                 THEN BiomeEntries[first].file
                 ELSE None

ContentTypeOf(kind) ==
    IF kind = "jpg" THEN "image/jpeg"
    ELSE IF kind = "png" THEN "image/png"
    ELSE "image/svg+xml"

\* if (existsSync(jpg)) ... else if (existsSync(png)) ... else if (existsSync(svg))
FirstKind(dir, c) ==
    IF HasImage(dir, c, "jpg") THEN "jpg"
    ELSE IF HasImage(dir, c, "png") THEN "png"
    ELSE IF HasImage(dir, c, "svg") THEN "svg"
    ELSE None

\* The same chain over templates/hexagon_template.{jpg,png,svg}.
FirstTemplate(templates) ==
    IF "jpg" \in templates THEN "jpg"
    ELSE IF "png" \in templates THEN "png"
    ELSE IF "svg" \in templates THEN "svg"
    ELSE None

Found(status, source, name, contentType) ==
    [status |-> status, source |-> source, name |-> name, contentType |-> contentType]
Nothing == Found(200, "nothing", None, None)
NoAnswer == [via |-> None, c |-> <<0, 0>>, want |-> FALSE, magickOk |-> FALSE,
             answer |-> Found(0, None, None, None)]

\* resolveHexImage(xNum, yNum, wantThumbnail); magickOk tells whether the
\* thumbnail conversion, if it is run, succeeds.
resolveHexImage(c, wantThumbnail, magickOk) ==
    LET thumb == FirstKind(thumbnails, c)
        full == FirstKind(images, c)
        biomePath == getBiomeTemplatePath(terrain, assets.biomes)
        derived == wantThumbnail /\ thumb = None /\ full # None /\ magickOk
    IN  /\ thumbnails' = IF derived THEN WriteImage(thumbnails, c, "jpg", 0) ELSE thumbnails
        /\ served' =
              [via |-> "resolveHexImage", c |-> c, want |-> wantThumbnail,
               magickOk |-> magickOk,
               answer |->
                  IF wantThumbnail /\ thumb # None
                  THEN Found(200, "thumbnail", thumb, ContentTypeOf(thumb))
                  ELSE IF derived THEN Found(200, "derived", "jpg", "image/jpeg")
                  ELSE IF full # None THEN Found(200, "image", full, ContentTypeOf(full))
                  ELSE IF biomePath # None THEN Found(200, "biome", biomePath, "image/png")
                  ELSE Nothing]
        /\ UNCHANGED <<images, metadata, tempFiles, env, req, lastBody, assets, terrain>>

\* GET /api/hexagon/:x/:y with the query ?thumbnail=&checkExists=.
GetHexagon(valid, c, checkExists, wantThumbnail, magickOk) ==
    LET thumb == FirstKind(thumbnails, c)
        full == FirstKind(images, c)
        hasCustomImage == TileExists(images, c)
        biomePath == getBiomeTemplatePath(terrain, assets.biomes)
        template == FirstTemplate(assets.templates)
        chain == ~checkExists /\ valid
        derived == chain /\ wantThumbnail /\ thumb = None /\ hasCustomImage /\ magickOk
    IN  /\ thumbnails' = IF derived THEN WriteImage(thumbnails, c, "jpg", 0) ELSE thumbnails
        /\ served' =
              [via |-> "GET", c |-> c, want |-> wantThumbnail, magickOk |-> magickOk,
               answer |->
                  IF ~valid THEN Found(400, "error", None, "application/json")
                  ELSE IF checkExists
                  THEN Found(200, "exists", IF hasCustomImage THEN "true" ELSE "false",
                             "application/json")
                  ELSE IF wantThumbnail /\ thumb # None
                  THEN Found(200, "thumbnail", thumb, ContentTypeOf(thumb))
                  ELSE IF derived THEN Found(200, "derived", "jpg", "image/jpeg")
                  ELSE IF full # None THEN Found(200, "image", full, ContentTypeOf(full))
                  ELSE IF biomePath # None THEN Found(200, "biome", biomePath, "image/png")
                  ELSE IF template # None
                  THEN Found(200, "template", template, ContentTypeOf(template))
                  ELSE Found(200, "placeholder", "svg", "image/svg+xml")]
        /\ UNCHANGED <<images, metadata, tempFiles, env, req, lastBody, assets, terrain>>

(***************************************************************************)
(* generateCoordinateImage (generateCoordinateImage.ts).  Every call works *)
(* in the one directory TEMP_DIR.  A file of it is [name, content]; the    *)
(* content of an image is the sequence of hexagon images layered on the    *)
(* white canvas, the white canvas itself being <<>>.  An awaited command   *)
(* reads and writes its files in one step, together with the code that     *)
(* runs on to the next await; it fails when a file it reads or the         *)
(* directory it writes to is missing.  A call is                           *)
(*   pc       the await it is suspended at                                 *)
(*   c        <<centerX, centerY>>                                         *)
(*   i        index into allHexagons of the hexagon being placed           *)
(*   current  the file currentImage names                                  *)
(*   src      hexImagePath of the hexagon being placed                     *)
(*   ok, image  whether the call returned, and what it wrote to outputPath *)
(***************************************************************************)
DEFAULT_HEX_SIZE == 220
DEFAULT_CANVAS_SIZE == 512
\* Math.sqrt(3) * 1.36 and Math.sqrt(3) * 0.680, in thousandths.
RowPitch == 2356
RowShift == 1178

Centers == {<<2, 0>>, <<3, 0>>}

\* Positions are in thousandths of a pixel.
getHexagonPosition(x, y, size) ==
    [x |-> x * size * 1000,
     y |-> y * size * RowPitch + JsRem(x, 2) * size * RowShift]

\* "Only place if within reasonable canvas bounds"
OnCanvas(center, h) ==
    LET size == DEFAULT_HEX_SIZE
        canvas == DEFAULT_CANVAS_SIZE * 1000
        centerPos == getHexagonPosition(center[1], center[2], size)
        hexPos == getHexagonPosition(h[1], h[2], size)
        finalX == hexPos.x + ((canvas \div 2) - centerPos.x - size * 1000)
        finalY == hexPos.y + ((canvas \div 2) - centerPos.y - size * 1000)
    IN  /\ finalX >= 0 - size * 2000 /\ finalX <= canvas + size * 2000
        /\ finalY >= 0 - size * 2000 /\ finalY <= canvas + size * 2000

allHexagons(c) == <<c>> \o getHexagonNeighbors(c[1], c[2])

CurrentPng == <<"current", <<0, 0>>>>
CroppedPng(h) == <<"cropped", h>>
HexPng(h) == <<"hex", h>>
NextPng(h) == <<"next", h>>

WriteTemp(files, name, content) ==
    {f \in files : f.name # name} \cup {[name |-> name, content |-> content]}
HasTemp(files, name) == \E f \in files : f.name = name
ReadTemp(files, name) == (CHOOSE f \in files : f.name = name).content

NoSource == <<None, None, <<0, 0>>>>

IdleRun ==
    [pc |-> "idle", c |-> <<0, 0>>, i |-> 0, current |-> CurrentPng,
     src |-> NoSource, ok |-> FALSE, image |-> <<>>]

\* The tile of the coordinate, else the biome template (from the folder
\* "noise" for the centre), else hexagon_template; NoSource where the code
\* throws.  Both folders are taken to hold the same biome files.
getHexagonImagePathForCoordinate(h, noise) ==
    LET tile == FirstKind(images, h)
        biomePath == getBiomeTemplatePath(terrain, assets.biomes)
        template == FirstTemplate(assets.templates)
    IN  IF tile # None THEN <<"images", tile, h>>
        ELSE IF biomePath # None
        THEN <<IF noise THEN "noise" ELSE "templates", biomePath, <<0, 0>>>>
        ELSE IF template # None THEN <<"templates", template, <<0, 0>>>>
        ELSE NoSource

\* The call throws: the handler's catch block answers 500; TEMP_DIR is left
\* as it is.
Throw(r) ==
    run' = [run EXCEPT ![r] = [IdleRun EXCEPT !.pc = "done", !.c = run[r].c]]

\* The loop from hexagon i on, up to its next await: the image path of each
\* hexagon is looked up, hexagons off the canvas are skipped, and the crop of
\* the first one on the canvas is started; after the last hexagon the copy to
\* outputPath is started.
NextHexagon(r, i, current) ==
    LET c == run[r].c
        all == allHexagons(c)
        rest == {j \in i..Len(all) : OnCanvas(c, all[j])}
        j == IF rest = {} THEN Len(all) + 1
             ELSE CHOOSE k \in rest : \A m \in rest : k <= m
        looked == {k \in i..Len(all) : k <= j}
    IN  IF \E k \in looked : getHexagonImagePathForCoordinate(all[k], all[k] = c) = NoSource
        THEN Throw(r)
        ELSE IF rest = {}
        THEN run' = [run EXCEPT ![r].pc = "copy", ![r].i = j, ![r].current = current]
        ELSE run' = [run EXCEPT ![r].pc = "crop", ![r].i = j, ![r].current = current,
                                ![r].src = getHexagonImagePathForCoordinate(all[j], all[j] = c)]

\* The head of the function: TEMP_DIR is created if missing and the white
\* canvas is started.  Calls are numbered in the order they begin.
BeginRun(r, c) ==
    /\ run[r].pc = "idle"
    /\ \A q \in Requests : q < r => run[q].pc # "idle"
    /\ tempDir' = [tempDir EXCEPT !.exists = TRUE]
    /\ run' = [run EXCEPT ![r].pc = "white", ![r].c = c]

\* await magick xc:white current.png
White(r) ==
    /\ run[r].pc = "white"
    /\ IF tempDir.exists
       THEN /\ tempDir' = [tempDir EXCEPT !.files = WriteTemp(@, CurrentPng, <<>>)]
            /\ NextHexagon(r, 1, CurrentPng)
       ELSE /\ UNCHANGED tempDir
            /\ Throw(r)

\* await cropper.cropSingleFile(hexImagePath, cropped_x_y.png)
Crop(r) ==
    LET h == allHexagons(run[r].c)[run[r].i]
    IN  /\ run[r].pc = "crop"
        /\ IF tempDir.exists
           THEN /\ tempDir' = [tempDir EXCEPT
                                 !.files = WriteTemp(@, CroppedPng(h), <<run[r].src>>)]
                /\ run' = [run EXCEPT ![r].pc = "resize"]
           ELSE /\ UNCHANGED tempDir
                /\ Throw(r)

\* await magick cropped_x_y.png -resize hex_x_y.png
Resize(r) ==
    LET h == allHexagons(run[r].c)[run[r].i]
    IN  /\ run[r].pc = "resize"
        /\ IF tempDir.exists /\ HasTemp(tempDir.files, CroppedPng(h))
           THEN /\ tempDir' = [tempDir EXCEPT
                                 !.files = WriteTemp(@, HexPng(h),
                                                     ReadTemp(tempDir.files, CroppedPng(h)))]
                /\ run' = [run EXCEPT ![r].pc = "composite"]
           ELSE /\ UNCHANGED tempDir
                /\ Throw(r)

\* await magick currentImage hex_x_y.png -composite next_x_y.png, then
\* currentImage = nextImage and the loop goes on.
Composite(r) ==
    LET h == allHexagons(run[r].c)[run[r].i]
    IN  /\ run[r].pc = "composite"
        /\ IF /\ tempDir.exists
              /\ HasTemp(tempDir.files, run[r].current)
              /\ HasTemp(tempDir.files, HexPng(h))
           THEN /\ tempDir' = [tempDir EXCEPT
                                 !.files = WriteTemp(@, NextPng(h),
                                                     ReadTemp(tempDir.files, run[r].current)
                                                     \o ReadTemp(tempDir.files, HexPng(h)))]
                /\ NextHexagon(r, run[r].i + 1, NextPng(h))
           ELSE /\ UNCHANGED tempDir
                /\ Throw(r)

\* await magick currentImage outputPath, then every file of TEMP_DIR is
\* unlinked and the directory removed.
Copy(r) ==
    /\ run[r].pc = "copy"
    /\ IF HasTemp(tempDir.files, run[r].current)
       THEN /\ tempDir' = [exists |-> FALSE, files |-> {}]
            /\ run' = [run EXCEPT ![r] = [IdleRun EXCEPT
                         !.pc = "done", !.c = run[r].c, !.ok = TRUE,
                         !.image = ReadTemp(tempDir.files, run[r].current)]]
       ELSE /\ UNCHANGED tempDir
            /\ Throw(r)

(***************************************************************************)
(* extractCenterHexagon (scripts/utils/extractCenterHexagon.ts).  A        *)
(* rectangle is [w, h, x, y] in pixels: the geometry WxH+X+Y handed to     *)
(* magick -crop or -geometry.  crop is                                     *)
(*   call        "none", "context" (generateCoordinateImage placed the     *)
(*               centre hexagon), "pipeline" (the generate-tile handler    *)
(*               extracted), "script" (the command line tool extracted)    *)
(*   center      the coordinate the context canvas was built for           *)
(*   cell        where the centre hexagon was composited on that canvas    *)
(*   hexSize, canvasSize   the arguments of extractCenterHexagon           *)
(*   rect        the rectangle it cropped                                  *)
(***************************************************************************)
MaxHexSize == 6
MaxCanvasSize == 12

NoRect == [w |-> 0, h |-> 0, x |-> 0, y |-> 0]
NoCrop == [call |-> "none", center |-> <<0, 0>>, cell |-> NoRect,
           hexSize |-> 0, canvasSize |-> 0, rect |-> NoRect]

\* Math.round of n / 2 and of v thousandths: the nearest integer, halves up.
RoundHalf(n) == (n + 1) \div 2
RoundMilli(v) == (v + 500) \div 1000

extractCenterHexagonTopLeft(hexSize, canvasSize) ==
    [w |-> 2 * hexSize, h |-> 2 * hexSize, x |-> 0, y |-> 0]

\* cropX = Math.round(canvasSize / 2 - 2 * hexSize / 2), cropY the same.
extractCenterHexagon(hexSize, canvasSize) ==
    LET hexWidth == 2 * hexSize
        hexHeight == 2 * hexSize
    IN  [w |-> hexWidth, h |-> hexHeight,
         x |-> RoundHalf(canvasSize - hexWidth),
         y |-> RoundHalf(canvasSize - hexHeight)]

\* Where generateCoordinateImage composites the hexagon of the centre
\* coordinate: resized to 2*hexSize and placed at the rounded final position.
CenterCell(c) ==
    LET size == DEFAULT_HEX_SIZE
        canvas == DEFAULT_CANVAS_SIZE * 1000
        centerPos == getHexagonPosition(c[1], c[2], size)
        offsetX == (canvas \div 2) - centerPos.x - size * 1000
        offsetY == (canvas \div 2) - centerPos.y - size * 1000
    IN  [w |-> size * 2, h |-> size * 2,
         x |-> RoundMilli(centerPos.x + offsetX),
         y |-> RoundMilli(centerPos.y + offsetY)]

\* generateCoordinateImage(c) has placed the centre hexagon.
BuildContext(c) ==
    crop' = [NoCrop EXCEPT !.call = "context", !.center = c, !.cell = CenterCell(c)]

\* extractCenterHexagon(org, png, 2*DEFAULT_HEX_SIZE, 2*DEFAULT_CANVAS_SIZE)
\* of the generate-tile handler, on the provider's answer for that context.
PipelineExtract ==
    /\ crop.call = "context"
    /\ crop' = [crop EXCEPT
                  !.call = "pipeline",
                  !.hexSize = 2 * DEFAULT_HEX_SIZE,
                  !.canvasSize = 2 * DEFAULT_CANVAS_SIZE,
                  !.rect = extractCenterHexagon(2 * DEFAULT_HEX_SIZE, 2 * DEFAULT_CANVAS_SIZE)]

\* scripts/extractCenterHexagon.ts with --hex-size and --canvas-size.
ScriptExtract(hexSize, canvasSize) ==
    crop' = [crop EXCEPT
               !.call = "script", !.hexSize = hexSize, !.canvasSize = canvasSize,
               !.rect = extractCenterHexagon(hexSize, canvasSize)]

(***************************************************************************)
(* Perlin2D and getHeightAt (terrain.ts).  perlin is the module constant   *)
(* `perlin = new Perlin2D(90210)` while and after it is constructed:       *)
(*   i      the loop variable of generatePermutation, 0 once it returned   *)
(*   s      the 32-bit state of rand as <<high 16 bits, low 16 bits>>      *)
(*   perm   the array perm; perm[k + 1] here is perm[k] there              *)
(*   first  the table of the first process that built it, <<>> before      *)
(*   restarted  whether the process has been started again                 *)
(* lastHeight is the last call of getHeightAt, [n, c, value]: n alternates *)
(* between 1 and 2 from call to call, value is in millionths.              *)
(* Coordinates of the noise are in twentieths (frequency 0.05 doubles per  *)
(* octave), fade is rounded to thousandths, everything else is exact.      *)
(***************************************************************************)
PERLIN_SEED == 90210
Undefined == 0 - 1
Word == 65536

\* s = (s * 1664525 + 1013904223) >>> 0, 1664525 = 25 * 2^16 + 26125 and
\* 1013904223 = 15470 * 2^16 + 62303.
Lcg(s) ==
    LET low == s[2] * 26125 + 62303
        high == s[1] * 26125 + s[2] * 25 + 15470 + (low \div Word)
    IN  <<high % Word, low % Word>>

\* Math.floor((s / 0xffffffff) * m) for 1 <= m <= 256: with s * m =
\* q * 2^32 + r it is q, or q + 1 when q + r >= 2^32 - 1.
RandIndex(s, m) ==
    LET lm == s[2] * m
        t == s[1] * m + (lm \div Word)
        q == t \div Word
    IN  IF (t % Word) = Word - 1 /\ (lm % Word) + q >= Word - 1 THEN q + 1 ELSE q

\* [perm[i], perm[j]] = [perm[j], perm[i]]; an index past the end reads
\* undefined and a write to it extends the array.
Swap(perm, i, j) ==
    LET at(k) == IF k + 1 <= Len(perm) THEN perm[k + 1] ELSE Undefined
        len == IF j + 1 > Len(perm) THEN j + 1 ELSE Len(perm)
    IN  [n \in 1..len |-> IF n = i + 1 THEN at(j)
                          ELSE IF n = j + 1 THEN at(i)
                          ELSE at(n - 1)]

NoHeight == [n |-> 0, c |-> <<0, 0>>, value |-> 0]
Probes == {<<0 - 3, 2>>, <<0, 0>>, <<5, 0 - 4>>}

NewPerlin(first) ==
    [i |-> 255, s |-> <<PERLIN_SEED \div Word, PERLIN_SEED % Word>>,
     perm |-> [n \in 1..256 |-> n - 1], first |-> first, restarted |-> first # <<>>]

\* One iteration of the loop of generatePermutation.
ShuffleIteration ==
    /\ perlin.i > 0
    /\ LET s == Lcg(perlin.s)
           j == RandIndex(s, perlin.i + 1)
           perm == Swap(perlin.perm, perlin.i, j)
       IN  perlin' = [perlin EXCEPT
                        !.i = @ - 1, !.s = s, !.perm = perm,
                        !.first = IF perlin.i = 1 /\ perlin.first = <<>> THEN perm ELSE @]

\* The process is started again: the module constant is constructed anew.
\* Of the calls before the restart, those at the probes are kept on record.
Restart ==
    /\ perlin.i = 0
    /\ perlin' = NewPerlin(perlin.first)
    /\ lastHeight' = IF lastHeight.c \in Probes THEN lastHeight ELSE NoHeight

\* this.p[i] = this.permutation[i % 256] for i < 512.
P(i) == perlin.perm[(i % 256) + 1]

\* t * t * t * (t * (t * 6 - 15) + 10) at t = k / 20, in thousandths.
fade(k) == (k * k * k * (6 * k * k - 300 * k + 4000) + 1600) \div 3200

\* a + t * (b - a) with t in thousandths: the result is a thousand times a's unit.
lerp(t, a, b) == a * 1000 + t * (b - a)

grad(hash, x, y) ==
    LET h == hash % 4
        u == IF h < 2 THEN x ELSE y
        v == IF h < 2 THEN y ELSE x
    IN  (IF h % 2 = 0 THEN u ELSE 0 - u) + (IF (h \div 2) % 2 = 0 THEN v ELSE 0 - v)

\* Perlin2D.noise without its last line: lerp(v, x1, x2), in units of 1 / 20000000.
noiseSigned(x, y) ==
    LET X == (x \div 20) % 256
        Y == (y \div 20) % 256
        xf == x % 20
        yf == y % 20
        u == fade(xf)
        v == fade(yf)
        aa == P(P(X) + Y)
        ab == P(P(X) + Y + 1)
        ba == P(P(X + 1) + Y)
        bb == P(P(X + 1) + Y + 1)
        x1 == lerp(u, grad(aa, xf, yf), grad(ba, xf - 20, yf))
        x2 == lerp(u, grad(ab, xf, yf - 20), grad(bb, xf - 20, yf - 20))
    IN  lerp(v, x1, x2)

\* Perlin2D.noise at (x / 20, y / 20): (lerp(v, x1, x2) + 1) / 2, in units of
\* 1 / 40000000.
noise(x, y) == noiseSigned(x, y) + 20000000

\* Four octaves with frequencies 0.05, 0.1, 0.2, 0.4 and amplitudes 1, 1/2,
\* 1/4, 1/8, divided by maxAmplitude = 15/8; the result is in millionths.
getHeightAt(x, y) ==
    LET ox == x + 14
        oy == y + 24
        value == 8 * noise(ox, oy) + 4 * noise(2 * ox, 2 * oy)
                 + 2 * noise(4 * ox, 4 * oy) + noise(8 * ox, 8 * oy)
    IN  value \div 600


\* A caller of getHeightAt; the module constant has been constructed.
HeightAt(x, y) ==
    /\ perlin.i = 0
    /\ lastHeight' = [n |-> IF lastHeight.n = 1 THEN 2 ELSE 1, c |-> <<x, y>>,
                  value |-> getHeightAt(x, y)]

(***************************************************************************)
(* The generation tracker (utils/generationTracker.ts).  The file          *)
(* logs/generation_tracker.json is [generations, lastUpdated]; generations *)
(* is the object keyed "x_y", held here as the sequence of its values in   *)
(* the order of Object.entries (the order in which the keys were first     *)
(* set).  A missing file is read as NoTracker.                             *)
(***************************************************************************)
TrackCoords == {<<0, 0>>, <<1, 0>>}
NoTracker == [generations |-> <<>>, lastUpdated |-> 0]
NoPoller == [since |-> 0, updated |-> <<>>, owed |-> {}]
GenerationEntry(c, timestamp, username) ==
    [c |-> c, timestamp |-> timestamp, username |-> username]

\* tracker.generations[key] = entry: an existing key keeps its place.
SetGeneration(generations, entry) ==
    IF \E i \in DOMAIN generations : generations[i].c = entry.c
    THEN [i \in DOMAIN generations |->
             IF generations[i].c = entry.c THEN entry ELSE generations[i]]
    ELSE Append(generations, entry)

recordImageGenerationAt(c, username, file, t) ==
    [generations |-> SetGeneration(file.generations, GenerationEntry(c, t, username)),
     lastUpdated |-> t]

\* Array.prototype.sort((a, b) => a.timestamp - b.timestamp): stable.
InsertByTimestamp(sorted, e) ==
    LET k == Cardinality({i \in DOMAIN sorted : sorted[i].timestamp <= e.timestamp})
    IN  SubSeq(sorted, 1, k) \o <<e>> \o SubSeq(sorted, k + 1, Len(sorted))

RECURSIVE SortByTimestamp(_)
SortByTimestamp(s) ==
    IF s = <<>> THEN <<>>
    ELSE InsertByTimestamp(SortByTimestamp(SubSeq(s, 1, Len(s) - 1)), s[Len(s)])

UpdatedSince(e, sinceTimestamp) == e.timestamp > sinceTimestamp

getUpdatedCoordinates(sinceTimestamp, file) ==
    SortByTimestamp(SelectSeq(file.generations,
                              LAMBDA e : UpdatedSince(e, sinceTimestamp)))

getLastSystemUpdate(file) == file.lastUpdated

Largest(S) == CHOOSE m \in S : \A n \in S : n <= m

\* recordImageGeneration(x, y, username) of the tracker; the coordinate is
\* owed to the polling client from now on (writing the entry that is
\* already stored again records nothing new).
RecordGeneration(c, username) ==
    /\ tracker' = recordImageGenerationAt(c, username, tracker, now)
    /\ poller' = [poller EXCEPT !.owed = IF tracker' = tracker THEN @ ELSE @ \cup {c}]

\* The client calls getUpdatedCoordinates(since) and moves since to the
\* largest timestamp it has received so far.
PollUpdates ==
    LET updated == getUpdatedCoordinates(poller.since, tracker)
    IN  /\ poller' = [since |-> Largest({poller.since} \cup
                                        {e.timestamp : e \in Range(updated)}),
                      updated |-> updated,
                      owed |-> poller.owed \ {e.c : e \in Range(updated)}]
        /\ UNCHANGED tracker

InitUtil ==
    /\ crop = NoCrop
    /\ perlin = NewPerlin(<<>>)
    /\ lastHeight = NoHeight
    /\ inFlight = [u \in Users |-> NoStart]
    /\ caller = None
    /\ session = [r \in Requests |-> None]
    /\ tracker = NoTracker
    /\ poller = NoPoller

InitCompose ==
    /\ tempDir = [exists |-> FALSE, files |-> {}]
    /\ run = [r \in Requests |-> IdleRun]

InitResolve ==
    /\ assets = [biomes |-> BiomeFiles, templates |-> {}]
    /\ terrain = 550
    /\ served = NoAnswer

InitGeometry ==
    /\ hex = <<0, 0>>
    /\ hexNeighbors = getHexagonNeighbors(0, 0)
    /\ hexWithin = <<>>

Init ==
    /\ InitPipeline /\ InitLedger /\ InitProtocol
    /\ InitGeometry /\ InitResolve /\ InitCompose /\ InitWorkers /\ InitUtil

\* The ledger does not read the environment of the pipeline.
InitConfigured == Init /\ env = [apiKey |-> TRUE, maskPng |-> TRUE]

ReceiveStep ==
    /\ \E r \in Requests, u \in SessionUsers, a \in BOOLEAN, b \in Bodies : Receive(r, u, a, b)
    /\ UNCHANGED <<ledgerVars, protocolVars, geometryVars, resolveVars, composeVars, workerVars, utilVars>>
ComposeStep ==
    /\ \E r \in Requests, ok \in BOOLEAN : Compose(r, ok)
    /\ UNCHANGED lastBody
    /\ UNCHANGED <<ledgerVars, protocolVars, geometryVars, resolveVars, composeVars, workerVars, utilVars>>
ConvertStep ==
    /\ \E r \in Requests, ok \in BOOLEAN : Convert(r, ok)
    /\ UNCHANGED lastBody
    /\ UNCHANGED <<ledgerVars, protocolVars, geometryVars, resolveVars, composeVars, workerVars, utilVars>>
MaskStep ==
    /\ \E r \in Requests, ok \in BOOLEAN : Mask(r, ok)
    /\ UNCHANGED lastBody
    /\ UNCHANGED <<ledgerVars, protocolVars, geometryVars, resolveVars, composeVars, workerVars, utilVars>>
ProviderStep ==
    /\ \E r \in Requests, a \in {"throw", "nourl", "url"} : Provider(r, a)
    /\ UNCHANGED lastBody
    /\ UNCHANGED <<ledgerVars, protocolVars, geometryVars, resolveVars, composeVars, workerVars, utilVars>>
DownloadStep ==
    /\ \E r \in Requests, ok \in BOOLEAN : Download(r, ok)
    /\ UNCHANGED lastBody
    /\ UNCHANGED <<ledgerVars, protocolVars, geometryVars, resolveVars, composeVars, workerVars, utilVars>>
ExtractStep ==
    /\ \E r \in Requests, ok \in BOOLEAN : Extract(r, ok)
    /\ UNCHANGED lastBody
    /\ UNCHANGED <<ledgerVars, protocolVars, geometryVars, resolveVars, composeVars, workerVars, utilVars>>
ThumbStep ==
    /\ \E r \in Requests, ok \in BOOLEAN : Thumb(r, ok)
    /\ UNCHANGED lastBody
    /\ UNCHANGED <<ledgerVars, protocolVars, geometryVars, resolveVars, composeVars, workerVars, utilVars>>

Next ==
    \/ ReceiveStep
    \/ ComposeStep
    \/ ConvertStep
    \/ MaskStep
    \/ ProviderStep
    \/ DownloadStep
    \/ ExtractStep
    \/ ThumbStep

Spec == Init /\ [][Next]_vars

(***************************************************************************)
(* The ledger alone: any sequence of its calls, with time passing.         *)
(***************************************************************************)
CanGenerateStep ==
    /\ \E u \in Users, c \in LedgerCoords : CanGenerate(u, c)
    /\ UNCHANGED <<pipelineVars, protocolVars, geometryVars, resolveVars, composeVars, workerVars, utilVars>>
StartGenerationStep ==
    /\ \E u \in Users, c \in LedgerCoords : StartGeneration(u, c)
    /\ UNCHANGED <<pipelineVars, protocolVars, geometryVars, resolveVars, composeVars, workerVars, utilVars>>
StopGenerationStep ==
    /\ \E u \in Users : StopGeneration(u)
    /\ UNCHANGED <<pipelineVars, protocolVars, geometryVars, resolveVars, composeVars, workerVars, utilVars>>
RecordSuccessStep ==
    /\ \E u \in Users : RecordSuccess(u)
    /\ UNCHANGED <<pipelineVars, protocolVars, geometryVars, resolveVars, composeVars, workerVars, utilVars>>
TickStep ==
    /\ \E d \in TickSteps : Tick(d)
    /\ UNCHANGED <<pipelineVars, protocolVars, geometryVars, resolveVars, composeVars, workerVars, utilVars>>

NextLedger ==
    \/ CanGenerateStep
    \/ StartGenerationStep
    \/ StopGenerationStep
    \/ RecordSuccessStep
    \/ TickStep

LedgerSpec == InitConfigured /\ [][NextLedger]_vars

(***************************************************************************)
(* Properties of the pipeline.                                             *)
(***************************************************************************)
Neighbors(c) == Range(getHexagonNeighbors(c[1], c[2]))
WithinRadiusTwo(c) == (Neighbors(c) \cup UNION {Neighbors(n) : n \in Neighbors(c)}) \ {c}
TileAt(c) == \E f \in images : f.c = c /\ f.kind \in {"jpg", "png", "svg"}
Eligible(c) == ~TileAt(c) /\ \E n \in WithinRadiusTwo(c) : TileAt(n)

\* A request leaves "idle" with valid input and an authenticated session.
Evaluated(r) ==
    /\ req[r].pc = "idle"
    /\ req'[r].pc # "idle"
    /\ req'[r].outcome \notin {"400", "401"}

\* C1: a generate request for target c passes eligibility if and only if no
\* tile exists at c and some coordinate of withinRadiusTwo(c) has a tile;
\* otherwise it is refused with 409 (already exists) or 403 (not adjacent).
\* GET can-generate answers allowed under the same condition.
C1_EligibilityIff ==
    /\ [][\A r \in Requests :
            Evaluated(r) =>
               /\ (req'[r].pc = "compose") <=> Eligible(req'[r].c)
               /\ req'[r].pc # "compose" =>
                     /\ req'[r].pc = "done"
                     /\ req'[r].outcome \in {"403", "409"}]_vars
    /\ [](\A c \in Targets : CanGenerateEndpoint(images, c).allowed <=> Eligible(c))

\* With only (0,0) seeded, (2,0) has passed and (100,100) was refused as not adjacent.
C1_Witness ==
    /\ {f.c : f \in images} = {<<0, 0>>}
    /\ \E r1, r2 \in Requests :
          /\ req[r1].pc = "compose" /\ req[r1].c = <<2, 0>>
          /\ req[r2].pc = "done" /\ req[r2].c = <<100, 100>> /\ req[r2].outcome = "403"

FilesBy(r) ==
    {f \in images : f.by = r} \cup {t \in thumbnails : t.by = r}
    \cup {m \in metadata : m.by = r}

C7_AtMostOnePersist ==
    \A r1, r2 \in Requests :
       (/\ r1 # r2
        /\ "image" \in req[r1].wrote
        /\ "image" \in req[r2].wrote) => req[r1].c # req[r2].c

\* C12: no tile is ever removed, and whenever a step creates a tile at t a
\* tile already existed within withinRadiusTwo(t); so every tile is linked to
\* a seeded tile by a chain of tiles each created within radius two of an
\* older one.
C12_NoIslands ==
    [][\A t \in Targets :
          /\ TileAt(t) => TileAt(t)'
          /\ (~TileAt(t) /\ TileAt(t)') => \E n \in WithinRadiusTwo(t) : TileAt(n)]_vars

\* (6,0) is out of reach of the seed (0,0) and was generated after (2,0) was.
C12_Witness ==
    /\ <<0, 0>> \notin WithinRadiusTwo(<<6, 0>>)
    /\ \E r1, r2 \in Requests :
          /\ req[r1].c = <<2, 0>> /\ req[r1].outcome = "success"
          /\ req[r2].c = <<6, 0>> /\ req[r2].outcome = "success"
          /\ \E f \in images : f.c = <<2, 0>> /\ f.kind = "png" /\ f.by = r1
          /\ \E f \in images : f.c = <<6, 0>> /\ f.kind = "png" /\ f.by = r2

\* The value is an integer (a number or its decimal string).
IsInteger(v) == v[1] = "number"

\* A missing x or y, an empty prompt, or a coordinate that is no integer.
InputError(body) ==
    \/ body.x = Missing \/ body.y = Missing \/ ~body.prompt
    \/ ~IsInteger(body.x) \/ ~IsInteger(body.y)

\* The handler of request r runs its first segment (the session is
\* authenticated).
Received(r) ==
    /\ req[r].pc = "idle"
    /\ req'[r].pc # "idle"
    /\ req'[r].outcome # "401"

\* C22: a generate request with a missing x or y, an empty prompt or
\* coordinates that are not integers is answered with an input error (400),
\* and it creates or changes no tile, thumbnail, metadata, temporary file or
\* ledger record.
C22_InputErrorsRejected ==
    [][\A r \in Requests :
          (Received(r) /\ InputError(lastBody')) =>
             /\ req'[r].pc = "done"
             /\ req'[r].outcome = "400"
             /\ UNCHANGED <<images, thumbnails, metadata, tempFiles, rateFile, activeFile>>]_vars

\* C24: eligibility is evaluated in the order existence, then adjacency: a
\* generate request whose target already has a tile is refused with 409
\* (already exists), whether or not a tile exists within radius two of it.
C24_ExistenceFirst ==
    [][\A r \in Requests :
          (Evaluated(r) /\ TileAt(req'[r].c)) =>
             (req'[r].pc = "done" /\ req'[r].outcome = "409")]_vars

\* The request is past generateCoordinateImage: coordinate_x_y.png was written.
BuiltContext(r) ==
    req[r].pc \in {"convert", "mask", "provider", "download", "extract", "thumb"}

\* The provider has been called for the request and the request is not over.
ProviderCalled(r) == req[r].pc \in {"provider", "download", "extract", "thumb"}

\* The user of the request holds the ledger lock (an active-generation record).
Locked(r) == \E i \in 1..Len(activeFile) : activeFile[i].username = req[r].user

\* C28: the steps of a request happen only in the order Idle ->
\* EligibilityChecked -> Locked -> ContextBuilt -> ProviderCalled ->
\* ResultExtracted -> Persisted -> Unlocked: the provider is called only
\* after eligibility passed, the lock was taken and the context image was
\* built; the tile files of the target are written only after the provider
\* returned a result; and a request that is over holds no lock.
C28_PipelineOrder ==
    \A r \in Requests :
       /\ ProviderCalled(r) => (Locked(r) /\ BuiltContext(r))
       /\ FilesBy(r) # {} =>
             (req[r].pc \in {"extract", "thumb"} \/ req[r].pc = "done")
       /\ req[r].pc = "done" => activeFile = <<>>

\* C19: on every exit path of a generate request that built the context image
\* (success, provider failure, missing API key, answer without result URL,
\* exception), coordinate_x_y.png, coordinate_x_y.jpg and the converted mask
\* no longer exist when the response is sent.
C19_TempFilesRemoved ==
    [][\A r \in Requests :
          (BuiltContext(r) /\ req'[r].pc = "done") =>
             tempFiles' \cap {CoordPng(req'[r].c), CoordJpg(req'[r].c), MaskJpg} = {}]_vars

(***************************************************************************)
(* Properties of the ledger.                                               *)
(***************************************************************************)
NonExempt == Users \ {EXEMPT_USERNAME}
ActiveRecords(u) == {i \in 1..Len(activeFile) : activeFile[i].username = u}
RateRecords(u) == {i \in 1..Len(rateFile) : rateFile[i].username = u}
Returned(u) == last.op = "canGenerate" /\ last.username = u

\* C2: after startGeneration(u, c) of a non-exempt user, canGenerate(u, any
\* coordinate) is refused with isGenerating and the conflicting coordinate c
\* as long as the record is neither stopped nor stale; after
\* stopGeneration(u) it is not refused with isGenerating.
C2_RefusedWhileGenerating ==
    \A u \in NonExempt :
       Returned(u) =>
          /\ (lastStart[u].started /\ now - lastStart[u].startTime <= 300000) =>
                /\ ~last.res.allowed
                /\ last.res.isGenerating
                /\ last.res.generatingCoordinates = lastStart[u].coordinates
          /\ ~lastStart[u].started => ~last.res.isGenerating

\* canGenerate(alice) was refused, some time after alice's second start, with
\* the coordinate of that start.
C2_Witness ==
    /\ Returned("alice")
    /\ last.res.isGenerating
    /\ last.res.generatingCoordinates = <<6, 0>>
    /\ lastStart["alice"].startTime > 0
    /\ now > lastStart["alice"].startTime

\* C3: for a non-exempt user without an active-generation record,
\* canGenerate allows if and only if the user has no rate-limit record or at
\* least 60 seconds have passed since lastGeneration; a user without records
\* is allowed, and right after recordSuccess(u) the user is refused.
C3_RateLimit ==
    \A u \in NonExempt :
       /\ (Returned(u) /\ ActiveRecords(u) = {}) =>
             (last.res.allowed <=>
                \A i \in RateRecords(u) : now - rateFile[i].lastGeneration >= 60 * 1000)
       /\ (last.op = "recordSuccess" /\ last.username = u /\ ~lastStart[u].started) =>
             LET res == canUserGenerateImage(u, <<2, 0>>,
                            cleanupStaleActiveGenerations(activeFile, now), rateFile, now)
             IN  /\ ~res.allowed
                 /\ ~res.isGenerating
                 /\ res.timeUntilNext = 60

\* canGenerate(alice) was refused one millisecond before the window ended.
C3_Witness ==
    /\ Returned("alice")
    /\ ~last.res.allowed
    /\ \E i \in RateRecords("alice") : now - rateFile[i].lastGeneration = 59999

\* C9: the active-generation collection holds at most one record per
\* username, and that record carries the coordinate of the user's latest
\* startGeneration.
C9_OneRecordPerUser ==
    \A u \in Users :
       /\ Cardinality(ActiveRecords(u)) <= 1
       /\ \A i \in ActiveRecords(u) :
             /\ lastStart[u].started
             /\ activeFile[i].coordinates = lastStart[u].coordinates
             /\ activeFile[i].startTime = lastStart[u].startTime

\* Both users hold a record, and alice's is the one of her second start.
C9_Witness ==
    /\ Len(activeFile) = 2
    /\ \E i \in ActiveRecords("alice") :
          activeFile[i].coordinates = <<6, 0>> /\ activeFile[i].startTime > 0
    /\ calls >= 3

\* C10: a canGenerate call purges every record older than 5 minutes before
\* it evaluates, so a user whose generation started more than 5 minutes ago
\* and was never stopped is not refused with isGenerating.
C10_StalePurged ==
    /\ last.op = "canGenerate" =>
          \A i \in 1..Len(activeFile) : now - activeFile[i].startTime <= 5 * 60 * 1000
    /\ \A u \in NonExempt :
          (Returned(u) /\ lastStart[u].started
           /\ now - lastStart[u].startTime > 5 * 60 * 1000) =>
             (~last.res.isGenerating /\ ActiveRecords(u) = {})

\* canGenerate(alice) allowed her 300001 ms after a start that was never stopped.
C10_Witness ==
    /\ Returned("alice")
    /\ lastStart["alice"].started
    /\ now - lastStart["alice"].startTime = 300001
    /\ last.res.allowed

\* The user has a rate-limit record inside the window.
InsideWindow(u) ==
    \E i \in RateRecords(u) : now - rateFile[i].lastGeneration < RATE_LIMIT_SECONDS * 1000

C26_RetryAfterRoundedUp ==
    \A u \in NonExempt :
       /\ (Returned(u) /\ ~last.res.allowed /\ ~last.res.isGenerating) =>
             \E i \in RateRecords(u) :
                LET remaining == 60000 - (now - rateFile[i].lastGeneration)
                    n == last.res.timeUntilNext
                IN  /\ n \in 1..60
                    /\ n * 1000 >= remaining
                    /\ (n - 1) * 1000 < remaining
       /\ (last.op = "recordSuccess" /\ last.username = u) =>
             LET active == cleanupStaleActiveGenerations(activeFile, now)
                 res == canUserGenerateImage(u, <<6, 0>>, active, rateFile, now)
             IN  ~MapHas(active, u) => res = RefusedRateLimited(60)

\* canGenerate(bob) was refused with 60 seconds one millisecond after bob's
\* recordSuccess: 59999 ms remain and are rounded up.
C26_Witness ==
    /\ Returned("bob")
    /\ ~last.res.allowed
    /\ last.res.timeUntilNext = 60
    /\ \E i \in RateRecords("bob") : now - rateFile[i].lastGeneration = 1

\* The time since the user's recordSuccess, for a user with a rate-limit record.
Elapsed(u) == now - rateFile[CHOOSE i \in RateRecords(u) : TRUE].lastGeneration

\* What canGenerate would return to u now.
Answer(u) ==
    canUserGenerateImage(u, <<2, 0>>, cleanupStaleActiveGenerations(activeFile, now),
                         rateFile, now)

\* The last call refused u for rate limiting.
RateRefused(u) == Returned(u) /\ ~last.res.allowed /\ ~last.res.isGenerating

\* C27 as stated: of two sequential requests of a non-exempt user within the
\* rate window the first is allowed and the second is refused with a positive
\* retryAfterSeconds strictly less than the window (60).
C27_RetryBelowWindow ==
    \A u \in NonExempt :
       /\ (RateRecords(u) = {} /\ ActiveRecords(u) = {}) => Answer(u) = Allowed
       /\ RateRefused(u) => (last.res.timeUntilNext > 0 /\ last.res.timeUntilNext < 60)

\* C27 as amended: the first is allowed and the second is refused with
\* 1 <= retryAfterSeconds <= 60; the value is strictly less than 60 exactly
\* when at least one second has passed since the first one's recordSuccess.
C27_RetryAtMostWindow ==
    \A u \in NonExempt :
       /\ (RateRecords(u) = {} /\ ActiveRecords(u) = {}) => Answer(u) = Allowed
       /\ RateRefused(u) =>
             /\ last.res.timeUntilNext \in 1..60
             /\ (last.res.timeUntilNext < 60) <=> (Elapsed(u) >= 1000)

\* alice was allowed, recorded her success, and one second later her next
\* canGenerate was refused with 59 seconds.
C27_Witness ==
    /\ RateRefused("alice")
    /\ Elapsed("alice") = 1000
    /\ last.res.timeUntilNext = 59
    /\ ActiveRecords("alice") = {}

\* C11: the exempt username is allowed by canGenerate in every ledger state,
\* no record of either collection carries it, and startGeneration,
\* stopGeneration and recordSuccess called for it leave both collections as
\* they were.
C11_ExemptAlwaysPasses ==
    /\ [](/\ canUserGenerateImage(EXEMPT_USERNAME, <<2, 0>>,
                 cleanupStaleActiveGenerations(activeFile, now), rateFile, now) = Allowed
          /\ (Returned(EXEMPT_USERNAME) => last.res = Allowed)
          /\ ActiveRecords(EXEMPT_USERNAME) = {}
          /\ RateRecords(EXEMPT_USERNAME) = {})
    /\ [][(\/ \E c \in LedgerCoords : StartGeneration(EXEMPT_USERNAME, c)
           \/ StopGeneration(EXEMPT_USERNAME)
           \/ RecordSuccess(EXEMPT_USERNAME))
          => UNCHANGED <<rateFile, activeFile>>]_vars

\* recordSuccess was just called for the exempt user while other users hold
\* records of both kinds.
C11_Witness ==
    /\ last.op = "recordSuccess" /\ last.username = EXEMPT_USERNAME
    /\ Len(rateFile) > 0 /\ Len(activeFile) > 0
    /\ calls >= 3

(***************************************************************************)
(* Clients of the ledger that follow the protocol                          *)
(*   canGenerate allowed -> startGeneration -> ... -> stopGeneration,      *)
(* canGenerate and startGeneration being called back to back.              *)
(***************************************************************************)
\* Requests are numbered in the order in which they arrive; request g asks
\* for the coordinate CoordOf(g).
NextIdle(g) == gen[g].pc = "idle" /\ \A h \in 1..(g - 1) : gen[h].pc # "idle"
CoordOf(g) == IF g % 2 = 1 THEN <<2, 0>> ELSE <<6, 0>>

\* The request asks canGenerate and goes on only when allowed.
Check(g, username) ==
    /\ NextIdle(g)
    /\ activeFile' = cleanupStaleActiveGenerations(activeFile, now)
    /\ LET res == canUserGenerateImage(username, CoordOf(g), activeFile', rateFile, now)
       IN  gen' = [gen EXCEPT ![g] =
                     [pc |-> IF res.allowed THEN "checked" ELSE "refused",
                      username |-> username, startTime |-> 0,
                      why |-> IF res.allowed THEN None
                              ELSE IF res.isGenerating THEN "generating" ELSE "rate"]]
    /\ UNCHANGED <<rateFile, now, ticks, calls, last, lastStart, overran, raced>>

\* The request takes the lock.  raced[u] records that another request of u
\* had been allowed and had not started yet.
Start(g) ==
    /\ gen[g].pc = "checked"
    /\ activeFile' = startActiveGeneration(gen[g].username, CoordOf(g), activeFile, now)
    /\ gen' = [gen EXCEPT ![g].pc = "inflight", ![g].startTime = now]
    /\ raced' = [raced EXCEPT ![gen[g].username] =
                    @ \/ \E h \in 1..MaxGenerations \ {g} :
                            gen[h].pc = "checked" /\ gen[h].username = gen[g].username]
    /\ UNCHANGED <<rateFile, now, ticks, calls, last, lastStart, overran>>

\* The generation ends: on success the rate-limit timestamp is recorded; on
\* both paths the active record is released.
Finish(g, success) ==
    /\ gen[g].pc = "inflight"
    /\ rateFile' = IF success THEN recordImageGeneration(gen[g].username, rateFile, now)
                   ELSE rateFile
    /\ activeFile' = stopActiveGeneration(gen[g].username, activeFile)
    /\ gen' = [gen EXCEPT ![g] = [IdleGeneration EXCEPT !.pc = "done"]]
    /\ UNCHANGED <<now, ticks, calls, last, lastStart, overran, raced>>

InFlight(u) == {g \in 1..MaxGenerations : gen[g].pc = "inflight" /\ gen[g].username = u}

\* Time passes; overran[u] records that a generation of u has been in flight
\* for longer than the stale threshold.
Elapse(d) ==
    /\ ticks < MaxTicks
    /\ now' = now + d
    /\ ticks' = ticks + 1
    /\ overran' = [u \in Users |->
                     overran[u] \/ \E g \in InFlight(u) : now' - gen[g].startTime > STALE_THRESHOLD]
    /\ UNCHANGED <<rateFile, activeFile, calls, last, lastStart, gen, raced>>

ElapseSteps == {1, STALE_THRESHOLD}

CheckStep ==
    /\ \E g \in 1..MaxGenerations, u \in SessionUsers : Check(g, u)
    /\ UNCHANGED <<pipelineVars, geometryVars, resolveVars, composeVars, workerVars, utilVars>>
StartStep ==
    /\ \E g \in 1..MaxGenerations : Start(g)
    /\ UNCHANGED <<pipelineVars, geometryVars, resolveVars, composeVars, workerVars, utilVars>>
FinishStep ==
    /\ \E g \in 1..MaxGenerations, ok \in BOOLEAN : Finish(g, ok)
    /\ UNCHANGED <<pipelineVars, geometryVars, resolveVars, composeVars, workerVars, utilVars>>
ElapseStep ==
    /\ \E d \in ElapseSteps : Elapse(d)
    /\ UNCHANGED <<pipelineVars, geometryVars, resolveVars, composeVars, workerVars, utilVars>>

NextProtocol ==
    \/ CheckStep
    \/ StartStep
    \/ FinishStep
    \/ ElapseStep

ProtocolSpec == InitConfigured /\ [][NextProtocol]_vars

Grid == (0 - MaxCoord)..MaxCoord

NeighborsStep ==
    /\ \E x \in Grid, y \in Grid :
          /\ hex' = <<x, y>>
          /\ hexNeighbors' = getHexagonNeighbors(x, y)
    /\ hexWithin' = <<>>
    /\ UNCHANGED <<pipelineVars, ledgerVars, protocolVars, resolveVars, composeVars, workerVars, utilVars>>

RadiusTwoStep ==
    /\ hexWithin = <<>>
    /\ hexWithin' = getNeighborsWithinRadiusTwo(hex[1], hex[2])
    /\ UNCHANGED <<hex, hexNeighbors, pipelineVars, ledgerVars, protocolVars, resolveVars, composeVars, workerVars, utilVars>>

NextGeometry ==
    \/ NeighborsStep
    \/ RadiusTwoStep

GeometrySpec == InitConfigured /\ [][NextGeometry]_vars

\* C13: neighbors(x, y) has exactly 6 pairwise distinct coordinates and does
\* not contain (x, y), for coordinates of either sign and on the axes.
C13_SixDistinctNeighbors ==
    /\ Len(hexNeighbors) = 6
    /\ Cardinality(Range(hexNeighbors)) = 6
    /\ hex \notin Range(hexNeighbors)

\* The neighbours of a coordinate with negative odd x on the x-axis.
C13_Witness ==
    /\ hex = <<-3, 0>>
    /\ Range(hexNeighbors) =
          {<<-5, 0>>, <<-1, 0>>, <<-4, 0>>, <<-2, 0>>, <<-4, 1>>, <<-2, 1>>}
FixedNeighbors(c) ==
    {<<c[1] - 2, c[2]>>, <<c[1] + 2, c[2]>>, <<c[1] - 1, c[2]>>, <<c[1] + 1, c[2]>>}
UpperDiagonals(c) == {<<c[1] - 1, c[2] - 1>>, <<c[1] + 1, c[2] - 1>>}
LowerDiagonals(c) == {<<c[1] - 1, c[2] + 1>>, <<c[1] + 1, c[2] + 1>>}
IsEven(n) == n % 2 = 0

\* C14 as stated: the four fixed neighbours plus two diagonals chosen by the
\* parity of x alone: y - 1 for even x, y + 1 for odd x.
C14_DiagonalsByParity ==
    Range(hexNeighbors) =
       FixedNeighbors(hex)
       \cup (IF IsEven(hex[1]) THEN UpperDiagonals(hex) ELSE LowerDiagonals(hex))

\* C14 as amended: the four fixed neighbours plus two diagonals chosen by the
\* parity of x where x >= 0 or y = 0 (y - 1 for even x, y + 1 for odd x), and
\* the other way round where x < 0 and y # 0 (y + 1 for even x, y - 1 for
\* odd x).
C14_DiagonalsByParityAndSign ==
    LET flipped == hex[1] < 0 /\ hex[2] # 0
    IN  Range(hexNeighbors) =
           FixedNeighbors(hex)
           \cup (IF IsEven(hex[1]) # flipped
                 THEN UpperDiagonals(hex) ELSE LowerDiagonals(hex))

\* An even negative x off the x-axis: the diagonals are the lower ones.
C14_Witness ==
    /\ hex = <<-2, 1>>
    /\ LowerDiagonals(hex) \subseteq Range(hexNeighbors)
\* C15: withinRadiusTwo(c) is the union of neighbors(c) and of neighbors(n)
\* for the n of neighbors(c), without c; no coordinate is listed twice.
C15_RadiusTwoIsUnion ==
    hexWithin # <<>> =>
       /\ Range(hexWithin) = WithinRadiusTwo(hex)
       /\ hex \notin Range(hexWithin)
       /\ Cardinality(Range(hexWithin)) = Len(hexWithin)

\* The list for (6,0): its direct neighbours first, (6,0) itself left out
\* although it is a neighbour of each of them.
C15_Witness ==
    /\ hex = <<6, 0>>
    /\ Len(hexWithin) = 18
    /\ SubSeq(hexWithin, 1, 6) = hexNeighbors
    /\ \A i \in 1..6 : hex \in Neighbors(hexNeighbors[i])
AwayFromAxes(c) == c[1] >= 2 \/ (c[1] <= -3 /\ (c[2] >= 2 \/ c[2] <= -2))

ResolveCoord == <<2, 0>>
Heights == {450, 550, 700}
BiomeSets == {{}, BiomeFiles, BiomeFiles \ {"gras.png"}, {"gras.png"}}
FilesAt(c, kinds) == {[c |-> c, kind |-> k, by |-> 0] : k \in kinds}

InitStore ==
    /\ InitLedger /\ InitProtocol /\ InitGeometry /\ InitCompose /\ InitWorkers /\ InitUtil
    /\ images \in {FilesAt(ResolveCoord, K) : K \in SUBSET TileKinds}
    /\ thumbnails \in {FilesAt(ResolveCoord, K) : K \in SUBSET TileKinds}
    /\ metadata = {}
    /\ tempFiles = {}
    /\ env = [apiKey |-> TRUE, maskPng |-> TRUE]
    /\ req = [r \in Requests |-> IdleRequest]
    /\ lastBody = NoBody
    /\ assets \in [biomes : BiomeSets, templates : SUBSET TileKinds]
    /\ terrain \in Heights
    /\ served = NoAnswer

GetHexagonStep ==
    /\ \E valid, checkExists, wantThumbnail, magickOk \in BOOLEAN :
          GetHexagon(valid, ResolveCoord, checkExists, wantThumbnail, magickOk)
    /\ UNCHANGED <<ledgerVars, protocolVars, geometryVars, composeVars, workerVars, utilVars>>

ResolveHexImageStep ==
    /\ \E wantThumbnail, magickOk \in BOOLEAN :
          resolveHexImage(ResolveCoord, wantThumbnail, magickOk)
    /\ UNCHANGED <<ledgerVars, protocolVars, geometryVars, composeVars, workerVars, utilVars>>

NextResolve ==
    \/ GetHexagonStep
    \/ ResolveHexImageStep

ResolveSpec == InitStore /\ [][NextResolve]_vars
ImageTypes == {"image/jpeg", "image/png", "image/svg+xml"}
IsRead(answer) == answer.source \notin {None, "error", "exists"}

\* C17: a read of a valid coordinate without a stored tile answers with an
\* image (status 200, a source, an image content type), whatever thumbnails,
\* biome files and templates are present.
C17_ResolveTotal ==
    (IsRead(served.answer) /\ ~TileExists(images, served.c)) =>
       /\ served.answer.status = 200
       /\ served.answer.source # "nothing"
       /\ served.answer.contentType \in ImageTypes

\* The source the stated precedence names for a read of c.
ExpectedSource(c, wantThumbnail, magickOk) ==
    LET thumb == FirstKind(thumbnails, c)
        full == FirstKind(images, c)
        biomePath == getBiomeTemplatePath(terrain, assets.biomes)
    IN  IF wantThumbnail /\ thumb # None THEN <<"thumbnail", thumb>>
        ELSE IF wantThumbnail /\ full # None /\ magickOk THEN <<"derived", "jpg">>
        ELSE IF full # None THEN <<"image", full>>
        ELSE IF biomePath # None THEN <<"biome", biomePath>>
        ELSE <<"placeholder", "svg">>

\* C18: every read takes the first available source of the chain stored
\* thumbnail -> derived thumbnail -> full image -> biome template ->
\* placeholder, jpg before png before svg, and a derived thumbnail is stored.
C18_Precedence ==
    [][IsRead(served'.answer) =>
          /\ <<served'.answer.source, served'.answer.name>> =
                ExpectedSource(served'.c, served'.want, served'.magickOk)
          /\ served'.answer.source = "derived" =>
                HasImage(thumbnails', served'.c, "jpg")]_vars

(***************************************************************************)
(* generateCoordinateImage alone: the calls of concurrent generate         *)
(* requests, over the seeded store.                                        *)
(***************************************************************************)
BeginRunStep ==
    /\ \E r \in Requests, c \in Centers : BeginRun(r, c)
    /\ UNCHANGED <<pipelineVars, ledgerVars, protocolVars, geometryVars, resolveVars, workerVars, utilVars>>
WhiteStep ==
    /\ \E r \in Requests : White(r)
    /\ UNCHANGED <<pipelineVars, ledgerVars, protocolVars, geometryVars, resolveVars, workerVars, utilVars>>
CropStep ==
    /\ \E r \in Requests : Crop(r)
    /\ UNCHANGED <<pipelineVars, ledgerVars, protocolVars, geometryVars, resolveVars, workerVars, utilVars>>
ResizeStep ==
    /\ \E r \in Requests : Resize(r)
    /\ UNCHANGED <<pipelineVars, ledgerVars, protocolVars, geometryVars, resolveVars, workerVars, utilVars>>
CompositeStep ==
    /\ \E r \in Requests : Composite(r)
    /\ UNCHANGED <<pipelineVars, ledgerVars, protocolVars, geometryVars, resolveVars, workerVars, utilVars>>
CopyStep ==
    /\ \E r \in Requests : Copy(r)
    /\ UNCHANGED <<pipelineVars, ledgerVars, protocolVars, geometryVars, resolveVars, workerVars, utilVars>>

NextCompose ==
    \/ BeginRunStep
    \/ WhiteStep
    \/ CropStep
    \/ ResizeStep
    \/ CompositeStep
    \/ CopyStep

ComposeSpec == InitConfigured /\ [][NextCompose]_vars

\* What a call alone writes to outputPath: its hexagons on the canvas, in the
\* order of allHexagons, each with its own image.
ContextImage(c) ==
    LET placed == SelectSeq(allHexagons(c), LAMBDA h : OnCanvas(c, h))
    IN  [k \in 1..Len(placed) |-> getHexagonImagePathForCoordinate(placed[k], placed[k] = c)]

\* The calls so far are for pairwise different coordinates.
DifferentCoordinates ==
    \A q, r \in Requests :
       (q # r /\ run[q].pc # "idle" /\ run[r].pc # "idle") => run[q].c # run[r].c

\* C20: when generate requests for different coordinates run concurrently, no
\* step of one deletes or overwrites a temporary file another one still
\* reads: each call of generateCoordinateImage ends as it would alone, having
\* written the context image of its own coordinate.
C20_SameAsSequential ==
    DifferentCoordinates =>
       \A r \in Requests :
          run[r].pc = "done" => (run[r].ok /\ run[r].image = ContextImage(run[r].c))

(***************************************************************************)
(* Writers of the ledger files in several processes.                       *)
(***************************************************************************)
LoadLedgerStep ==
    /\ \E w \in Workers, op \in LedgerOps, u \in Users, c \in LedgerCoords :
          LoadLedger(w, op, u, c)
    /\ UNCHANGED <<pipelineVars, protocolVars, geometryVars, resolveVars, composeVars, utilVars>>
    /\ UNCHANGED <<now, ticks, calls, last, lastStart>>
SaveLedgerStep ==
    /\ \E w \in Workers : SaveLedger(w)
    /\ UNCHANGED <<pipelineVars, protocolVars, geometryVars, resolveVars, composeVars, utilVars>>
    /\ UNCHANGED <<now, ticks, calls, last, lastStart>>

NextWorkers ==
    \/ LoadLedgerStep
    \/ SaveLedgerStep

WorkerSpec == InitConfigured /\ [][NextWorkers]_vars

\* The file a worker's call writes.
LedgerFile(w) == IF worker[w].op = "start" THEN activeFile ELSE rateFile

\* The worker's call wrote a record that the file no longer holds.
UpdateLost(w) ==
    /\ worker[w].pc = "done"
    /\ worker[w].username # EXEMPT_USERNAME
    /\ ~MapHas(LedgerFile(w), worker[w].username)

\* C21: the load-mutate-rewrite of the ledger is not atomic across writers.
\* The record a completed call wrote is missing from the file only if another
\* writer of the same file had loaded it before that write and rewrote it
\* afterwards; and with such an interleaving it is missing (C21_Witness).
C21_LostOnlyByInterleaving ==
    \A w \in Workers :
       UpdateLost(w) => \E v \in worker[w].overlapped : worker[v].pc = "done"

\* startGeneration(alice, (2,0)) and startGeneration(bob, (6,0)) have both
\* completed and the active-generations file lacks alice's record.
C21_Witness ==
    \E a, b \in Workers :
       /\ worker[a].pc = "done" /\ worker[a].op = "start"
       /\ worker[a].username = "alice" /\ worker[a].coordinates = <<2, 0>>
       /\ worker[b].pc = "done" /\ worker[b].op = "start"
       /\ worker[b].username = "bob" /\ worker[b].coordinates = <<6, 0>>
       /\ ~MapHas(activeFile, "alice")
       /\ MapHas(activeFile, "bob")

(***************************************************************************)
(* Refusals: the first segment of the generate-tile handler (validation    *)
(* and eligibility) next to the calls of the ledger.                       *)
(***************************************************************************)
RefusalCoord == <<2, 0>>

AskStep ==
    /\ \E u \in SessionUsers : CanGenerate(u, RefusalCoord)
    /\ UNCHANGED <<pipelineVars, protocolVars, geometryVars, resolveVars, composeVars, workerVars, utilVars>>
LockStep ==
    /\ \E u \in SessionUsers : StartGeneration(u, RefusalCoord)
    /\ UNCHANGED <<pipelineVars, protocolVars, geometryVars, resolveVars, composeVars, workerVars, utilVars>>
RecordStep ==
    /\ \E u \in SessionUsers : RecordSuccess(u)
    /\ UNCHANGED <<pipelineVars, protocolVars, geometryVars, resolveVars, composeVars, workerVars, utilVars>>
\* Long enough for every active record to become stale.
WaitStep ==
    /\ Tick(STALE_THRESHOLD + 1)
    /\ UNCHANGED <<pipelineVars, protocolVars, geometryVars, resolveVars, composeVars, workerVars, utilVars>>

NextRefusal ==
    \/ ReceiveStep
    \/ AskStep
    \/ LockStep
    \/ RecordStep
    \/ WaitStep

\* The seeded store after (2,0) was generated.
InitRefusal ==
    /\ InitLedger /\ InitProtocol /\ InitGeometry /\ InitResolve
    /\ InitCompose /\ InitWorkers /\ InitUtil
    /\ images = {[c |-> c, kind |-> "png", by |-> 0] : c \in Seed \cup {RefusalCoord}}
    /\ thumbnails = {}
    /\ metadata = {}
    /\ tempFiles = {}
    /\ env = [apiKey |-> TRUE, maskPng |-> TRUE]
    /\ req = [r \in Requests |-> IdleRequest]
    /\ lastBody = NoBody

RefusalSpec == InitRefusal /\ [][NextRefusal]_vars

\* The step is a call of canUserGenerateImage that refuses.
LedgerRefuses ==
    /\ calls' = calls + 1
    /\ last'.op = "canGenerate"
    /\ ~last'.res.allowed

InitSources ==
    /\ InitLedger /\ InitProtocol /\ InitGeometry /\ InitCompose /\ InitWorkers /\ InitUtil
    /\ images = {[c |-> c, kind |-> "png", by |-> 0] : c \in Seed}
    /\ thumbnails = {}
    /\ metadata = {}
    /\ tempFiles = {}
    /\ env = [apiKey |-> TRUE, maskPng |-> TRUE]
    /\ req = [r \in Requests |-> IdleRequest]
    /\ lastBody = NoBody
    /\ assets \in [biomes : BiomeSets, templates : {{}, {"png"}}]
    /\ terrain = 550
    /\ served = NoAnswer

SourceSpec == InitSources /\ [][NextCompose]_vars

\* No other call of generateCoordinateImage has begun.
Alone(r) == \A q \in Requests \ {r} : run[q].pc = "idle"

\* C29: a missing source image never aborts compositing: whatever tile,
\* biome and template files are missing, a call of generateCoordinateImage
\* finds an image for the centre and for each of its neighbours and returns.
C29_CompositingNeverAborts ==
    \A r \in Requests : (Alone(r) /\ run[r].pc = "done") => run[r].ok

(***************************************************************************)
(* getBiomeTemplatePath alone, over the heights 0.000, 0.001, ..., with    *)
(* every biome file present.                                               *)
(***************************************************************************)
HeightGrid == 0..MaxHeight

BiomeStep ==
    /\ \E h \in HeightGrid :
          /\ terrain' = h
          /\ served' = [via |-> "biome", c |-> <<0, 0>>, want |-> FALSE, magickOk |-> FALSE,
                        answer |-> Found(200, "biome",
                                         getBiomeTemplatePath(h, assets.biomes),
                                         "image/png")]
    /\ UNCHANGED <<pipelineVars, ledgerVars, protocolVars, geometryVars, composeVars,
                   workerVars, utilVars, assets>>

NextBiome == BiomeStep

BiomeSpec == InitConfigured /\ [][NextBiome]_vars

\* The bands of the claim, heights in thousandths.
BiomeOf(h) ==
    IF h <= 500 THEN "water.png"
    ELSE IF h <= 510 THEN "sand.png"
    ELSE IF h <= 600 THEN "gras.png"
    ELSE IF h <= 650 THEN "mountain.png"
    ELSE "snow.png"

\* Position of a biome in ascending threshold order.
BiomeRank(file) == CHOOSE i \in 1..Len(BiomeEntries) : BiomeEntries[i].file = file

\* C30: for every height h in [0,1] the biome is the first one, in ascending
\* threshold order, whose threshold is >= h: water for h <= 0.50, sand for
\* 0.50 < h <= 0.51, grass for 0.51 < h <= 0.60, mountain for
\* 0.60 < h <= 0.65, snow above; every height has exactly one biome and a
\* higher height never has a lower biome.
C30_BiomeBands ==
    /\ [](served.via = "biome" =>
             /\ served.answer.name = BiomeOf(terrain)
             /\ \E i \in 1..Len(BiomeEntries) :
                   /\ BiomeEntries[i].file = served.answer.name
                   /\ terrain <= BiomeEntries[i].threshold
                   /\ \A j \in 1..(i - 1) : terrain > BiomeEntries[j].threshold)
    /\ [][(served.via = "biome" /\ terrain <= terrain') =>
             BiomeRank(served.answer.name) <= BiomeRank(served'.answer.name)]_vars

\* At exactly 0.51 the biome is still sand.
C30_Witness ==
    /\ served.via = "biome"
    /\ terrain = 510
    /\ served.answer.name = "sand.png"

(***************************************************************************)
(* extractCenterHexagon alone: the context canvas is built for the         *)
(* coordinates of the grid, the handler extracts with both sizes doubled,  *)
(* and the command line tool extracts with the sizes it is given.          *)
(***************************************************************************)
BuildContextStep ==
    /\ \E x \in Grid, y \in Grid : BuildContext(<<x, y>>)
    /\ UNCHANGED <<pipelineVars, ledgerVars, protocolVars, geometryVars, resolveVars,
                   composeVars, workerVars, perlin, lastHeight, inFlight, caller, session, tracker, poller>>

PipelineExtractStep ==
    /\ PipelineExtract
    /\ UNCHANGED <<pipelineVars, ledgerVars, protocolVars, geometryVars, resolveVars,
                   composeVars, workerVars, perlin, lastHeight, inFlight, caller, session, tracker, poller>>

ScriptExtractStep ==
    /\ \E hexSize \in 1..MaxHexSize, canvasSize \in 1..MaxCanvasSize :
          ScriptExtract(hexSize, canvasSize)
    /\ UNCHANGED <<pipelineVars, ledgerVars, protocolVars, geometryVars, resolveVars,
                   composeVars, workerVars, perlin, lastHeight, inFlight, caller, session, tracker, poller>>

NextExtract ==
    \/ BuildContextStep
    \/ PipelineExtractStep
    \/ ScriptExtractStep

ExtractSpec == InitConfigured /\ [][NextExtract]_vars

Extracted == crop.call \in {"pipeline", "script"}

\* The square of side 2*hexSize centred exactly on the canvas centre.
CentredSquare(rect, hexSize, canvasSize) ==
    /\ rect.w = 2 * hexSize /\ rect.h = 2 * hexSize
    /\ 2 * rect.x + rect.w = canvasSize
    /\ 2 * rect.y + rect.h = canvasSize

InsideCanvas(rect, canvasSize) ==
    /\ rect.x >= 0 /\ rect.x + rect.w <= canvasSize
    /\ rect.y >= 0 /\ rect.y + rect.h <= canvasSize

Scaled(rect, k) == [w |-> k * rect.w, h |-> k * rect.h, x |-> k * rect.x, y |-> k * rect.y]

\* The pipeline's rectangle is the centre cell of the context canvas scaled
\* by the factor of the canvas.
MatchesContext ==
    crop.call = "pipeline" =>
        crop.rect = Scaled(crop.cell, crop.canvasSize \div DEFAULT_CANVAS_SIZE)

\* C31 as stated: every rectangle extractCenterHexagon crops is the square of
\* side 2*hexSize centred exactly on the canvas centre and inside the canvas,
\* and the pipeline's rectangle is the scaled centre cell of the context.
C31_CentredSquareInside ==
    /\ Extracted => /\ CentredSquare(crop.rect, crop.hexSize, crop.canvasSize)
                    /\ InsideCanvas(crop.rect, crop.canvasSize)
    /\ MatchesContext

\* C31: when the canvas size is even and the square fits (2*hexSize <=
\* canvasSize), the rectangle is the square of side 2*hexSize centred exactly
\* on the canvas centre and inside the canvas; the side is 2*hexSize in every
\* call; and the pipeline's rectangle is the centre cell of the context
\* canvas scaled by the factor of the canvas.
C31_CentredWhenEvenAndFits ==
    /\ Extracted => /\ crop.rect.w = 2 * crop.hexSize /\ crop.rect.h = 2 * crop.hexSize
                    /\ (crop.canvasSize % 2 = 0 /\ 2 * crop.hexSize <= crop.canvasSize)
                       => /\ CentredSquare(crop.rect, crop.hexSize, crop.canvasSize)
                          /\ InsideCanvas(crop.rect, crop.canvasSize)
    /\ MatchesContext

\* The handler has extracted from the answer for a context built at a
\* coordinate with odd negative x; the rectangle is 880x880+72+72.
C31_Witness ==
    /\ crop.call = "pipeline"
    /\ crop.center = <<0 - 3, 2>>
    /\ crop.rect = [w |-> 880, h |-> 880, x |-> 72, y |-> 72]
    /\ crop.cell = [w |-> 440, h |-> 440, x |-> 36, y |-> 36]

\* The offset from a to b on the layout of getHexagonPosition, as
\* <<columns, half rows>>: one column is size pixels, one half row is
\* size * sqrt(3) * 0.68 pixels.
LayoutOffset(a, b) ==
    LET size == DEFAULT_HEX_SIZE
        pa == getHexagonPosition(a[1], a[2], size)
        pb == getHexagonPosition(b[1], b[2], size)
    IN  <<(pb.x - pa.x) \div (size * 1000), (pb.y - pa.y) \div (size * RowShift)>>

HexSteps == {<<0 - 2, 0>>, <<2, 0>>, <<0 - 1, 0 - 1>>, <<1, 0 - 1>>, <<0 - 1, 1>>, <<1, 1>>}

\* C32: for every (x, y), each neighbour of (x, y) lies one hex step from
\* (x, y) on the layout, an offset of (+-2, 0) or (+-1, +-1) in columns and
\* half rows, and all six such offsets occur; also for negative x and y = 0.
C32_NeighborsOneStepOnLayout ==
    /\ \A i \in 1..Len(hexNeighbors) : LayoutOffset(hex, hexNeighbors[i]) \in HexSteps
    /\ {LayoutOffset(hex, hexNeighbors[i]) : i \in 1..Len(hexNeighbors)} = HexSteps

(***************************************************************************)
(* The terrain alone: the permutation is shuffled, getHeightAt is called   *)
(* at the coordinates of the grid, and the process may be started again.   *)
(***************************************************************************)
ShuffleStep ==
    /\ ShuffleIteration
    /\ UNCHANGED <<pipelineVars, ledgerVars, protocolVars, geometryVars, resolveVars,
                   composeVars, workerVars, crop, lastHeight, inFlight, caller, session, tracker, poller>>

RestartStep ==
    /\ Restart
    /\ UNCHANGED <<pipelineVars, ledgerVars, protocolVars, geometryVars, resolveVars,
                   composeVars, workerVars, crop, inFlight, caller, session, tracker, poller>>

HeightAtStep ==
    /\ \E x \in Grid, y \in Grid : HeightAt(x, y)
    /\ UNCHANGED <<pipelineVars, ledgerVars, protocolVars, geometryVars, resolveVars,
                   composeVars, workerVars, crop, perlin, inFlight, caller, session, tracker, poller>>

NextTerrain ==
    \/ ShuffleStep
    \/ RestartStep
    \/ HeightAtStep

TerrainSpec == InitConfigured /\ [][NextTerrain]_vars

IsPermutation(perm) ==
    /\ Len(perm) = 256
    /\ \A v \in 0..255 : \E n \in 1..256 : perm[n] = v

C34_NeighborsSymmetric ==
    /\ \A i \in 1..Len(hexNeighbors) :
          hex \in Range(getHexagonNeighbors(hexNeighbors[i][1], hexNeighbors[i][2]))
    /\ \A i \in 1..Len(hexWithin) :
          hex \in Range(getNeighborsWithinRadiusTwo(hexWithin[i][1], hexWithin[i][2]))

\* C35: when a generate request for c has answered success, a tile exists at
\* c (the existence check of a later request for c finds it), whichever way
\* download, extraction, metadata and thumbnail went; and a thumbnail or a
\* metadata file of c exists only together with a tile at c.
C35_SuccessMeansTile ==
    /\ \A r \in Requests :
          (req[r].pc = "done" /\ req[r].outcome = "success") => TileExists(images, req[r].c)
    /\ \A c \in Targets :
          ((\E t \in thumbnails : t.c = c) \/ (\E m \in metadata : m.c = c))
             => TileExists(images, c)

(***************************************************************************)
(* The ledger with isCoordinateBeingGenerated.  inFlight[u] is the latest  *)
(* startActiveGeneration(u, c) of any user u, exempt or not, that no       *)
(* stopActiveGeneration(u) followed.                                       *)
(***************************************************************************)
BeginStep ==
    /\ \E u \in Users, c \in LedgerCoords :
          /\ StartGeneration(u, c)
          /\ inFlight' = [inFlight EXCEPT ![u] = [started |-> TRUE, startTime |-> now,
                                                  coordinates |-> c]]
    /\ UNCHANGED <<pipelineVars, protocolVars, geometryVars, resolveVars, composeVars,
                   workerVars, crop, perlin, lastHeight, caller, session, tracker, poller>>

EndStep ==
    /\ \E u \in Users :
          /\ StopGeneration(u)
          /\ inFlight' = [inFlight EXCEPT ![u] = NoStart]
    /\ UNCHANGED <<pipelineVars, protocolVars, geometryVars, resolveVars, composeVars,
                   workerVars, crop, perlin, lastHeight, caller, session, tracker, poller>>

IsCoordinateBeingGeneratedStep ==
    /\ \E c \in LedgerCoords : IsCoordinateBeingGenerated(c)
    /\ UNCHANGED <<pipelineVars, protocolVars, geometryVars, resolveVars, composeVars,
                   workerVars, utilVars>>

NextCoordinate ==
    \/ BeginStep
    \/ EndStep
    \/ IsCoordinateBeingGeneratedStep
    \/ TickStep

CoordinateSpec == InitConfigured /\ [][NextCoordinate]_vars

Asked == last.op = "isCoordinateBeingGenerated"

\* The records of the collection for the coordinate asked about.
Holders == {i \in 1..Len(activeFile) : activeFile[i].coordinates = last.coordinates}

\* The answer is isGenerating = true with a holder of a record for the
\* coordinate exactly when, after the purge, there is such a record.
AnswersFromRecords ==
    Asked =>
       /\ \A i \in 1..Len(activeFile) : now - activeFile[i].startTime <= STALE_THRESHOLD
       /\ last.res.isGenerating <=> Holders # {}
       /\ last.res.isGenerating =>
             \E i \in Holders : activeFile[i].username = last.res.generatingUser
       /\ ~last.res.isGenerating => last.res.generatingUser = None

\* u started a generation for the coordinate asked about at most 5 minutes
\* ago and has not stopped it.
InFlightFor(u) ==
    /\ inFlight[u].started
    /\ inFlight[u].coordinates = last.coordinates
    /\ now - inFlight[u].startTime <= STALE_THRESHOLD

CorruptRateStep ==
    /\ ~Unparsable(rateFile)
    /\ rateFile' = Append(rateFile, [username |-> Garbage, lastGeneration |-> 0])
    /\ UNCHANGED <<activeFile, now, ticks, calls, last, lastStart>>
    /\ UNCHANGED <<pipelineVars, protocolVars, geometryVars, resolveVars, composeVars,
                   workerVars, utilVars>>

CorruptActiveStep ==
    /\ ~Unparsable(activeFile)
    /\ activeFile' = Append(activeFile, [username |-> Garbage, startTime |-> 0,
                                         coordinates |-> <<>>])
    /\ UNCHANGED <<rateFile, now, ticks, calls, last, lastStart>>
    /\ UNCHANGED <<pipelineVars, protocolVars, geometryVars, resolveVars, composeVars,
                   workerVars, utilVars>>

RemoveFilesStep ==
    /\ rateFile # <<>> \/ activeFile # <<>>
    /\ rateFile' = <<>>
    /\ activeFile' = <<>>
    /\ UNCHANGED <<now, ticks, calls, last, lastStart>>
    /\ UNCHANGED <<pipelineVars, protocolVars, geometryVars, resolveVars, composeVars,
                   workerVars, utilVars>>

NextStore ==
    \/ AskStep
    \/ LockStep
    \/ RecordStep
    \/ StopGenerationStep
    \/ CorruptRateStep
    \/ CorruptActiveStep
    \/ RemoveFilesStep

StoreSpec == InitConfigured /\ [][NextStore]_vars

\* The users with a well-formed record in the file.
Recorded(file) == {file[i].username : i \in 1..Len(file)} \ {Garbage}
EntryOf(file, u) == file[CHOOSE i \in 1..Len(file) : file[i].username = u]

\* C37: with a file missing or unparsable every ledger operation takes the
\* collection as empty, so canGenerate does not refuse on its account; and
\* the records that were in the store remain after the next mutation: a
\* ledger call drops no record from the rate-limit file and, from the
\* active-generation file, at most the record a stop removes.
C37_BadStoreKeepsRecords ==
    [][calls' = calls + 1 =>
          /\ last'.op = "canGenerate" =>
                /\ (Unparsable(activeFile) \/ activeFile = <<>>) => ~last'.res.isGenerating
                /\ (Unparsable(rateFile) \/ rateFile = <<>>) => last'.res.timeUntilNext = 0
          /\ \A u \in Recorded(rateFile) :
                /\ u \in Recorded(rateFile')
                /\ (last'.op # "recordSuccess" =>
                       EntryOf(rateFile', u) = EntryOf(rateFile, u))
          /\ Cardinality(Recorded(activeFile) \ Recorded(activeFile'))
                <= (IF last'.op = "stop" THEN 1 ELSE 0)]_vars

(***************************************************************************)
(* The ledger with the username of each call on record.                    *)
(***************************************************************************)
CanGenerateForStep ==
    /\ \E u \in Users, c \in LedgerCoords : CanGenerate(u, c) /\ caller' = u
    /\ UNCHANGED <<pipelineVars, protocolVars, geometryVars, resolveVars, composeVars,
                   workerVars, crop, perlin, lastHeight, inFlight, session, tracker, poller>>

StartGenerationForStep ==
    /\ \E u \in Users, c \in LedgerCoords : StartGeneration(u, c) /\ caller' = u
    /\ UNCHANGED <<pipelineVars, protocolVars, geometryVars, resolveVars, composeVars,
                   workerVars, crop, perlin, lastHeight, inFlight, session, tracker, poller>>

StopGenerationForStep ==
    /\ \E u \in Users : StopGeneration(u) /\ caller' = u
    /\ UNCHANGED <<pipelineVars, protocolVars, geometryVars, resolveVars, composeVars,
                   workerVars, crop, perlin, lastHeight, inFlight, session, tracker, poller>>

RecordSuccessForStep ==
    /\ \E u \in Users : RecordSuccess(u) /\ caller' = u
    /\ UNCHANGED <<pipelineVars, protocolVars, geometryVars, resolveVars, composeVars,
                   workerVars, crop, perlin, lastHeight, inFlight, session, tracker, poller>>

NextFrame ==
    \/ CanGenerateForStep
    \/ StartGenerationForStep
    \/ StopGenerationForStep
    \/ RecordSuccessForStep
    \/ TickStep

FrameSpec == InitConfigured /\ [][NextFrame]_vars

EntriesOf(file, u) == {file[i] : i \in {j \in 1..Len(file) : file[j].username = u}}
StaleEntries(u) == {e \in EntriesOf(activeFile, u) : now - e.startTime > STALE_THRESHOLD}

\* C38: a ledger operation invoked for u leaves the records of every other
\* username as they are in both collections, except that canGenerate purges
\* the active records older than 5 minutes; canGenerate changes no
\* rate-limit record; stopGeneration(u) for a user without a record changes
\* nothing.
C38_OthersUnchanged ==
    [][calls' = calls + 1 =>
          /\ \A v \in Users \ {caller'} :
                /\ EntriesOf(rateFile', v) = EntriesOf(rateFile, v)
                /\ EntriesOf(activeFile', v) =
                      EntriesOf(activeFile, v)
                         \ (IF last'.op = "canGenerate" THEN StaleEntries(v) ELSE {})
          /\ last'.op = "canGenerate" => rateFile' = rateFile
          /\ (last'.op = "stop" /\ EntriesOf(activeFile, caller') = {}) =>
                (activeFile' = activeFile /\ rateFile' = rateFile)]_vars

\* canGenerate for bob has purged alice's stale record and left her
\* rate-limit record alone.
C38_Witness ==
    /\ last.op = "canGenerate" /\ caller = "bob"
    /\ lastStart["alice"].started
    /\ EntriesOf(activeFile, "alice") = {}
    /\ EntriesOf(rateFile, "alice") # {}

(***************************************************************************)
(* The generate-tile endpoint with the session of each request on record:  *)
(* "authenticated" or "anonymous" once the request has arrived.            *)
(***************************************************************************)
ArriveStep ==
    /\ \E r \in Requests, u \in SessionUsers, a \in BOOLEAN, b \in Bodies :
          /\ Receive(r, u, a, b)
          /\ session' = [session EXCEPT ![r] = IF a THEN "authenticated" ELSE "anonymous"]
    /\ UNCHANGED <<ledgerVars, protocolVars, geometryVars, resolveVars, composeVars,
                   workerVars, crop, perlin, lastHeight, inFlight, caller, tracker, poller>>

NextAuth ==
    \/ ArriveStep
    \/ ComposeStep
    \/ ConvertStep
    \/ MaskStep
    \/ ProviderStep
    \/ DownloadStep
    \/ ExtractStep
    \/ ThumbStep

AuthSpec == Init /\ [][NextAuth]_vars

\* C39: a generate request whose session is not authenticated is answered
\* 401 in the step it arrives, which changes no tile, thumbnail, metadata,
\* temporary file or ledger record; such a request never writes a file and
\* never reaches the provider: a request inside the pipeline is authenticated.
C39_UnauthenticatedRejected ==
    /\ [](\A r \in Requests :
             /\ session[r] = "anonymous" =>
                   /\ req[r].pc = "done" /\ req[r].outcome = "401"
                   /\ req[r].wrote = {} /\ FilesBy(r) = {}
             /\ (BuiltContext(r) \/ ProviderCalled(r) \/ req[r].pc = "compose")
                   => session[r] = "authenticated"
             /\ (req[r].pc = "done" /\ req[r].outcome = "401") => session[r] = "anonymous")
    /\ [][\A r \in Requests :
             (session[r] = None /\ session'[r] = "anonymous") =>
                UNCHANGED <<images, thumbnails, metadata, tempFiles, rateFile, activeFile>>]_vars

\* An anonymous request was answered 401 while the request of an
\* authenticated session is at the provider.
C39_Witness ==
    \E r1, r2 \in Requests :
       /\ session[r1] = "anonymous" /\ req[r1].pc = "done" /\ req[r1].outcome = "401"
       /\ session[r2] = "authenticated" /\ req[r2].pc = "provider"
       /\ lastBody = [x |-> Num(2), y |-> Num(0), prompt |-> TRUE]

(***************************************************************************)
(* The tracker with one polling client.  Date.now() is positive; polls are *)
(* repeated for ever (weak fairness of the poll).                          *)
(***************************************************************************)
InitTracker ==
    /\ InitPipeline /\ InitProtocol /\ InitGeometry /\ InitResolve /\ InitCompose
    /\ InitWorkers /\ InitUtil
    /\ env = [apiKey |-> TRUE, maskPng |-> TRUE]
    /\ rateFile = <<>>
    /\ activeFile = <<>>
    /\ now = 1
    /\ ticks = 0
    /\ calls = 0
    /\ last = Call(None, None, Allowed)
    /\ lastStart = [u \in Users |-> NoStart]

RecordGenerationStep ==
    /\ \E c \in TrackCoords, u \in SessionUsers : RecordGeneration(c, u)
    /\ UNCHANGED <<pipelineVars, ledgerVars, protocolVars, geometryVars, resolveVars,
                   composeVars, workerVars, crop, perlin, lastHeight, inFlight,
                   caller, session>>
PollStep ==
    /\ PollUpdates
    /\ UNCHANGED <<pipelineVars, ledgerVars, protocolVars, geometryVars, resolveVars,
                   composeVars, workerVars, crop, perlin, lastHeight, inFlight,
                   caller, session>>

NextTracker ==
    \/ RecordGenerationStep
    \/ PollStep
    \/ TickStep

TrackerSpec == InitTracker /\ [][NextTracker]_vars /\ WF_vars(PollStep)

\* The list is exactly the stored entries newer than since, oldest first.
ExactlyUpdated(updated, sinceTimestamp, file) ==
    /\ Range(updated) = {e \in Range(file.generations) : e.timestamp > sinceTimestamp}
    /\ Len(updated) = Cardinality(Range(updated))
    /\ \A i, j \in DOMAIN updated : i < j => updated[i].timestamp <= updated[j].timestamp
LastUpdatedCovers ==
    \A e \in Range(tracker.generations) : e.timestamp <= getLastSystemUpdate(tracker)

\* C40: a client that polls getUpdatedCoordinates(since) again and again,
\* since being the largest timestamp it has received, eventually receives
\* every recorded coordinate; every list it gets is exactly the stored
\* entries with timestamp > since in ascending timestamp order; lastUpdated
\* is at least the timestamp of every stored entry.
C40_PollingMissesNothing ==
    /\ \A c \in TrackCoords : (c \in poller.owed) ~> (c \notin poller.owed)
    /\ [][(poller'.since # poller.since \/ poller'.updated # poller.updated) =>
             ExactlyUpdated(poller'.updated, poller.since, tracker)]_vars
    /\ []LastUpdatedCovers

====
